---------------------------- MODULE Spec2Model ----------------------------
(***************************************************************************)
(* A model of the algorithmic core of GHEval (GhCommons.py, GhLandCover.py):*)
(* coordinate parsing and scanning, nearest-road search, road scoring and  *)
(* land-cover classification.                                              *)
(*                                                                         *)
(* Text is a sequence of characters.  ASCII characters are themselves; the *)
(* others carry a name: "deg" is the degree sign, "do" "bun" "cho" are the *)
(* Korean degree, minute and second words, "buk" "nam" "dong" "seo" "wi"   *)
(* "gyeong" the syllables of the Korean direction words, "prime" "dprime"  *)
(* "rsquote" "rdquote" the typographic minute and second marks.            *)
(*                                                                         *)
(* Angles are fixed-point numbers in units of 1/Unit degree, so that the   *)
(* decimal, minute and second literals of the inputs are exact.            *)
(***************************************************************************)
EXTENDS Integers, Sequences, FiniteSets, TLC

VARIABLES
    comp,            \* _parse_single_coord: the component text
    single,          \* _parse_single_coord: its return value
    input,           \* parse_coordinates, scan_coordinates_in_text: the argument text
    coords,          \* parse_coordinates: the list coords once both parts parsed
    parsed,          \* parse_coordinates: its return value
    COORD_PATTERNS,  \* the module-level list _COORD_PATTERNS (pattern numbers)
    pc,              \* per thread calling scan_coordinates_in_text: where it is
    ck,              \* per thread: the next pattern _compile_coord_patterns appends
    idx,             \* per thread: the index i of the loop over _COORD_PATTERNS
    results,         \* per thread: the local list results
    returned,        \* per thread: the value scan_coordinates_in_text returned
    image,           \* classify_landcover: image_bgr with its HSV planes, row by row
    mask,            \* classify_landcover: the mask argument
    counts,          \* classify_landcover: the dict counts when percentages are taken
    result,          \* classify_landcover: its return value
    other,           \* classify_landcover: the image of a second call with the same mask
    result_other,    \* classify_landcover: the return value of the second call
    distance_m,      \* road_distance_to_score: the argument
    score,           \* road_distance_to_score: its return value
    point,           \* fetch_road_distance: the query point (lat, lng)
    elements,        \* fetch_road_distance: result["elements"] of the response
    elem,            \* fetch_road_distance: position of the loop over the elements
    examined,        \* the results of _closest_point_on_segment so far, in order
    min_dist,        \* fetch_road_distance: min_dist
    closest,         \* fetch_road_distance: (closest_lat, closest_lng)
    fetched,         \* fetch_road_distance: how it ended
    config,          \* the Wayback catalog: the items of the decoded JSON object
    max_tries,       \* fetch_wayback_summer_by_capture: the argument max_tries
    callback,        \* fetch_wayback_summer_by_capture: whether progress_callback is given
    wpc,             \* fetch_wayback_summer_by_capture: where it is
    versions,        \* fetch_wayback_summer_by_capture: the list versions
    tries,           \* fetch_wayback_summer_by_capture: tries
    wi,              \* fetch_wayback_summer_by_capture: the turns of the loop done
    seen_dates,      \* fetch_wayback_summer_by_capture: seen_dates
    best,            \* fetch_wayback_summer_by_capture: best
    queries,         \* the point queries issued, in order, each with its outcome
    progress,        \* the messages given to progress_callback, in order
    wb,              \* fetch_wayback_summer_by_capture: how it ended
    summer,          \* _find_summer_by_release_date: how it ended
    shape,           \* analyze_landcover: image.shape[:2], (h, w)
    requested,       \* analyze_landcover: what meters_to_pixels returned
    center,          \* analyze_landcover: center
    radius_px,       \* analyze_landcover: radius_px after the clamp
    circle,          \* extract_circle_region: mask, the pixels (x, y) where it is true
    pdf_paths,       \* PdfProcessorWorker: self.pdf_paths
    _cancelled,      \* PdfProcessorWorker: self._cancelled
    run_pc,          \* PdfProcessorWorker.run: where it is
    run_i,           \* PdfProcessorWorker.run: the turns of the loop done
    batch,           \* PdfProcessorWorker.run: batch.results
    emitted,         \* the signals the worker has emitted, in order
    listdir,         \* run_migrations: os.listdir of the directory migrations
    _migrations,     \* the names in the table _migrations, in the order of insertion
    applied,         \* run_migrations: the set applied
    pending,         \* run_migrations: the files the loop has still to visit
    mig_pc,          \* run_migrations: running or not
    runs,            \* the runs of run_migrations begun
    migrated,        \* the calls of migrate(db): the file, the run and how it ended
    sites,           \* the ids of the rows of the table of sites
    evaluations,     \* per site id: its row of the table risk_evaluation, or None
    current_site,    \* MainWindow and EvaluationPanel: self.current_site
    current_evaluation, \* EvaluationPanel: self.current_evaluation
    sliders,         \* EvaluationPanel: the value of each of self.sliders
    _last_road_distance, \* EvaluationPanel: self._last_road_distance
    _last_road_snap, \* EvaluationPanel: self._last_road_snap
    _road_worker,    \* EvaluationPanel: self._road_worker
    measure_btn,     \* EvaluationPanel: whether self.measure_btn is enabled
    _analysis_worker, \* MainWindow: self._analysis_worker
    analyze_btn,     \* MainWindow: whether self.analyze_btn is enabled
    raised           \* the exception a handler of the GUI thread ended with

textVars == <<input, coords, parsed>>
scanVars == <<COORD_PATTERNS, pc, ck, idx, results, returned>>
singleVars == <<comp, single>>
coverVars == <<image, mask, counts, result, other, result_other>>
scoreVars == <<distance_m, score>>
roadVars == <<point, elements, elem, examined, min_dist, closest, fetched>>
waybackVars == <<config, max_tries, callback, wpc, versions, tries, wi, seen_dates, best,
                 queries, progress, wb, summer>>
circleVars == <<shape, requested, center, radius_px, circle>>
pdfVars == <<pdf_paths, _cancelled, run_pc, run_i, batch, emitted>>
migrateVars == <<listdir, _migrations, applied, pending, mig_pc, runs, migrated>>
panelVars == <<sites, evaluations, current_site, current_evaluation, sliders,
               _last_road_distance, _last_road_snap, _road_worker, measure_btn,
               _analysis_worker, analyze_btn, raised>>
appVars == <<circleVars, pdfVars, migrateVars, panelVars>>
vars == <<comp, single, input, coords, parsed, COORD_PATTERNS, pc, ck, idx, results,
          returned, image, mask, counts, result, other, result_other, distance_m, score,
          point, elements, elem, examined, min_dist, closest, fetched, config, max_tries,
          callback, wpc, versions, tries, wi, seen_dates, best, queries, progress, wb,
          summer,
          appVars>>

(***************************************************************************)
(* Characters                                                              *)
(***************************************************************************)
Digits == {"0", "1", "2", "3", "4", "5", "6", "7", "8", "9"}
Space == {" ", "\t", "\n", "\r"}
AnyChar == Digits \cup Space \cup
       {"N", "S", "E", "W", "n", "s", "e", "w", "-", ".", ",", ";", "'",
        "\"", "dprime", "rdquote", "prime", "rsquote", "deg", "do", "bun", "cho", "buk", "nam", "dong", "seo", "wi",
        "gyeong", "x"}

Abs(x) == IF x < 0 THEN -x ELSE x
\* F(v), with v evaluated before the call, as Python evaluates an argument
Then(v, F(_)) == CHOOSE r \in {F(x) : x \in {v}} : TRUE
Min(a, b) == IF a <= b THEN a ELSE b
Max(a, b) == IF a >= b THEN a ELSE b

(***************************************************************************)
(* Regular expressions (the subset of Python's re the program uses), with  *)
(* Python's backtracking order: Run returns every way the expression       *)
(* matches at a position, the preferred one first.                         *)
(***************************************************************************)
\* every node carries the number n of the group it is, 0 for none
Chr(cs) == [t |-> "set", n |-> 0, cs |-> cs]
Dot == Chr(AnyChar \ {"\n"})
Cat(xs) == [t |-> "cat", n |-> 0, xs |-> xs]
Alt(xs) == [t |-> "alt", n |-> 0, xs |-> xs]
Rep(x, lo, hi) == [t |-> "rep", n |-> 0, x |-> x, lo |-> lo, hi |-> hi, greedy |-> TRUE]
Lazy(x, lo, hi) == [t |-> "rep", n |-> 0, x |-> x, lo |-> lo, hi |-> hi, greedy |-> FALSE]
Grp(n, x) == IF x.n = 0 THEN [x EXCEPT !.n = n] ELSE [t |-> "cat", n |-> n, xs |-> <<x>>]
Eos == [t |-> "eos", n |-> 0]
NotBehind(cs) == [t |-> "nlb", n |-> 0, cs |-> cs]
NotAhead(cs) == [t |-> "nla", n |-> 0, cs |-> cs]
Opt(x) == Rep(x, 0, 1)
Star(x) == Rep(x, 0, 99)          \* 99: more than any text has characters
Plus(x) == Rep(x, 1, 99)
Lit(c) == Chr({c})
D == Chr(Digits)
WS == Star(Chr(Space))

NGroups == 8
NoGroups == [n \in 1..NGroups |-> <<0, 0>>]

RECURSIVE Run(_, _, _, _), RunCat(_, _, _, _, _), RunEach(_, _, _, _),
          RunAlt(_, _, _, _, _, _), RunRep(_, _, _, _, _, _), RunMore(_, _, _, _, _, _)

\* rs without the repetitions of an earlier element: a way to match that ends
\* where a preferred one ended, with the same groups, never decides a match
Repeats(rs) ==
    [k \in 1..Len(rs) |-> [r |-> rs[k], again |-> \E j \in 1..(k - 1) : rs[j] = rs[k]]]
Firsts(ms) == SubSeq([k \in 1..Len(ms) |-> ms[k].r], 1, Len(ms))
Uniq(rs) ==
    IF Len(rs) < 2 THEN rs ELSE Firsts(SelectSeq(Repeats(rs), LAMBDA m : ~m.again))

\* the groups g once group n has matched from position i to position j
Mark(g, n, i, j) == IF n = 0 THEN g ELSE [g EXCEPT ![n] = <<i, j>>]
\* the matches rs of a node that is group n, begun at position i
Capture(n, i, rs) ==
    IF n = 0 THEN rs
    ELSE SubSeq([j \in 1..Len(rs) |->
                    [pos |-> rs[j].pos, g |-> Mark(rs[j].g, n, i, rs[j].pos)]],
                1, Len(rs))

\* every match of x continued from each of the matches rs, from the j-th on
RunEach(x, s, rs, j) ==
    IF j > Len(rs) THEN <<>>
    ELSE Run(x, s, rs[j].pos, rs[j].g) \o RunEach(x, s, rs, j + 1)

\* the elements xs[lo..hi] one after the other, continued from the matches rs
RunCat(xs, lo, hi, s, rs) ==
    IF rs = <<>> \/ lo > hi THEN rs
    ELSE IF lo < hi
         THEN RunCat(xs, ((lo + hi) \div 2) + 1, hi, s,
                     RunCat(xs, lo, (lo + hi) \div 2, s, rs))
         ELSE IF Len(rs) = 1 THEN Run(xs[lo], s, rs[1].pos, rs[1].g)
              ELSE Uniq(RunEach(xs[lo], s, rs, 1))

\* the alternatives xs[lo..hi], the earlier ones preferred
RunAlt(xs, lo, hi, s, i, g) ==
    IF lo > hi THEN <<>>
    ELSE IF lo = hi THEN Run(xs[lo], s, i, g)
    ELSE RunAlt(xs, lo, (lo + hi) \div 2, s, i, g)
         \o RunAlt(xs, ((lo + hi) \div 2) + 1, hi, s, i, g)

\* lo to hi characters of the set cs from position i: the number n of
\* characters there are decides, the longer runs preferred when greedy
SetRun(cs, hi, s, i) ==
    CHOOSE n \in 0..Min(hi, Len(s) + 1 - i) :
        /\ \A k \in 0..(n - 1) : s[i + k] \in cs
        /\ n = Min(hi, Len(s) + 1 - i) \/ s[i + n] \notin cs
SetRepOf(n, lo, greedy, r) ==
    SubSeq([j \in 1..(n - lo + 1) |->
               [pos |-> r.pos + (IF greedy THEN n - j + 1 ELSE lo + j - 1), g |-> r.g]],
           1, n - lo + 1)
SetRep(cs, lo, hi, greedy, s, r) == SetRepOf(SetRun(cs, hi, s, r.pos), lo, greedy, r)

\* a repetition goes on from the matches rs that have advanced
RunMore(x, lo, hi, greedy, s, rs) ==
    IF rs = <<>> THEN <<>>
    ELSE (IF Head(rs).pos > Head(rs).from
          THEN RunRep(x, lo, hi, greedy, s, Head(rs))
          ELSE <<>>)
         \o RunMore(x, lo, hi, greedy, s, Tail(rs))

\* x?, then x{lo,hi} in general
RunRep(x, lo, hi, greedy, s, r) ==
    IF x.t = "set" /\ x.n = 0 THEN SetRep(x.cs, lo, hi, greedy, s, r)
    ELSE IF lo = 0 /\ hi = 1
    THEN Uniq(IF greedy THEN Run(x, s, r.pos, r.g) \o <<[pos |-> r.pos, g |-> r.g]>>
                        ELSE <<[pos |-> r.pos, g |-> r.g]>> \o Run(x, s, r.pos, r.g))
    ELSE
    LET stop == IF lo = 0 THEN <<[pos |-> r.pos, g |-> r.g]>> ELSE <<>>
        once == IF hi = 0 THEN <<>> ELSE Run(x, s, r.pos, r.g)
        tagged == [j \in 1..Len(once) |->
                     [pos |-> once[j].pos, g |-> once[j].g, from |-> r.pos]]
        more == RunMore(x, Max(lo - 1, 0), hi - 1, greedy, s, tagged)
    IN  Uniq(IF greedy THEN more \o stop ELSE stop \o more)

Run(re, s, i, g) ==
    CASE re.t = "set" ->
           IF i <= Len(s) /\ s[i] \in re.cs
           THEN <<[pos |-> i + 1, g |-> Mark(g, re.n, i, i + 1)]>> ELSE <<>>
      [] re.t = "cat" ->
           Capture(re.n, i, RunCat(re.xs, 1, Len(re.xs), s, <<[pos |-> i, g |-> g]>>))
      [] re.t = "alt" -> Capture(re.n, i, Uniq(RunAlt(re.xs, 1, Len(re.xs), s, i, g)))
      [] re.t = "rep" ->
           Capture(re.n, i,
                   RunRep(re.x, re.lo, re.hi, re.greedy, s, [pos |-> i, g |-> g]))
      [] re.t = "eos" ->
           IF i = Len(s) + 1 \/ (i = Len(s) /\ s[i] = "\n")
           THEN <<[pos |-> i, g |-> g]>> ELSE <<>>
      [] re.t = "nlb" ->
           IF i > 1 /\ s[i - 1] \in re.cs THEN <<>> ELSE <<[pos |-> i, g |-> g]>>
      [] re.t = "nla" ->
           IF i <= Len(s) /\ s[i] \in re.cs THEN <<>> ELSE <<[pos |-> i, g |-> g]>>

NoMatch == [ok |-> FALSE]

\* the match object of the preferred way rs[1] to match from position i
MatchAt(i, rs) ==
    IF rs = <<>> THEN NoMatch
    ELSE [ok |-> TRUE, from |-> i, to |-> rs[1].pos, g |-> rs[1].g]

\* re.match(pattern, text): the preferred match at the start of the text
ReMatch(re, s) == MatchAt(1, Run(re, s, 1, NoGroups))

\* m.group(n); a group that took no part in the match (None) reads as the
\* empty text, and Present tells the two apart
Present(m, n) == m.g[n] # <<0, 0>>
Group(m, s, n) == IF Present(m, n) THEN SubSeq(s, m.g[n][1], m.g[n][2] - 1) ELSE <<>>

(***************************************************************************)
(* str.strip, float                                                        *)
(***************************************************************************)
RECURSIVE LStrip(_), RStrip(_), IntVal(_), FracVal(_, _)
LStrip(s) == IF s # <<>> /\ Head(s) \in Space THEN LStrip(Tail(s)) ELSE s
RStrip(s) ==
    IF s # <<>> /\ s[Len(s)] \in Space THEN RStrip(SubSeq(s, 1, Len(s) - 1)) ELSE s
Strip(s) == LStrip(RStrip(s))

Unit == 3600 * 100                 \* fixed-point units per degree

DigitVal(c) ==
    CASE c = "0" -> 0 [] c = "1" -> 1 [] c = "2" -> 2 [] c = "3" -> 3
      [] c = "4" -> 4 [] c = "5" -> 5 [] c = "6" -> 6 [] c = "7" -> 7
      [] c = "8" -> 8 [] c = "9" -> 9

IntVal(ds) ==
    IF ds = <<>> THEN 0
    ELSE 10 * IntVal(SubSeq(ds, 1, Len(ds) - 1)) + DigitVal(ds[Len(ds)])

\* the digits after the point, the first worth scale units
FracVal(ds, scale) ==
    IF ds = <<>> THEN 0
    ELSE DigitVal(Head(ds)) * scale + FracVal(Tail(ds), scale \div 10)

IsDigits(ds) == \A k \in 1..Len(ds) : ds[k] \in Digits

\* float(s) for the literals the patterns capture: [-]digits[.digits] or
\* [-].digits; anything else makes float raise ValueError
FloatError == [ok |-> FALSE]
Float(s) ==
    LET neg == s # <<>> /\ Head(s) = "-"
        body == IF neg THEN Tail(s) ELSE s
        dots == {k \in 1..Len(body) : body[k] = "."}
        dot == IF dots = {} THEN Len(body) + 1 ELSE CHOOSE k \in dots : TRUE
        ip == SubSeq(body, 1, dot - 1)
        fp == SubSeq(body, dot + 1, Len(body))
        mag == IntVal(ip) * Unit + FracVal(fp, Unit \div 10)
    IN  IF Cardinality(dots) <= 1 /\ IsDigits(ip) /\ IsDigits(fp)
           /\ (ip # <<>> \/ fp # <<>>)
        THEN [ok |-> TRUE, v |-> IF neg THEN -mag ELSE mag]
        ELSE FloatError

(***************************************************************************)
(* _parse_single_coord and _parse_korean_dms                               *)
(***************************************************************************)
DirLetters == {"N", "S", "E", "W", "n", "s", "e", "w"}
Upper(c) ==
    CASE c = "n" -> "N" [] c = "s" -> "S" [] c = "e" -> "E" [] c = "w" -> "W"
      [] OTHER -> c

SEC_MARK == Chr({"\"", "dprime", "rdquote"})
MIN_MARK == Chr({"'", "prime", "rsquote"})
END_MARK == Chr({"'", "prime", "\"", "dprime", "rdquote", "rsquote"})
Sign(n) == Grp(n, Opt(Lit("-")))                       \* (-?)
D13(n) == Grp(n, Rep(D, 1, 3))                         \* (\d{1,3})
D12(n) == Grp(n, Rep(D, 1, 2))                         \* (\d{1,2})
D12f(n) == Grp(n, Cat(<<Rep(D, 1, 2), Opt(Cat(<<Lit("."), Plus(D)>>))>>))
                                                       \* (\d{1,2}(?:\.\d+)?)

PrefixDirRe == Cat(<<Grp(1, Chr(DirLetters)), WS, Grp(2, Star(Dot))>>)
SuffixDirRe == Cat(<<Grp(1, Lazy(Dot, 0, 99)), WS, Grp(2, Chr(DirLetters)), Eos>>)
DmsRe == Cat(<<Sign(1), D13(2), WS, Lit("deg"), WS, D12(3), WS, MIN_MARK, WS,
               D12f(4), WS, Opt(SEC_MARK), Eos>>)
DdmRe == Cat(<<Sign(1), D13(2), WS, Lit("deg"), WS, D12f(3), WS, Opt(END_MARK), Eos>>)
DmsSpaceRe == Cat(<<Sign(1), D13(2), Plus(Chr(Space)), D12(3), Plus(Chr(Space)),
                    D12f(4), Eos>>)
\* DecimalRe with \d* for \d+: a numeral may have no digit
DecimalReNoDigit ==
    Cat(<<Grp(1, Cat(<<Opt(Lit("-")), Star(D), Opt(Lit(".")), Star(D)>>)),
          WS, Opt(Lit("deg")), Eos>>)

DecimalRe == Cat(<<Grp(1, Cat(<<Opt(Lit("-")), Plus(D), Opt(Lit(".")), Star(D)>>)),
                   WS, Opt(Lit("deg")), Eos>>)
KorDmsRe == Cat(<<Sign(1), D13(2), WS, Lit("do"), WS, D12(3), WS, Lit("bun"), WS,
                  D12f(4), WS, Opt(Lit("cho")), Eos>>)
KorDdmRe == Cat(<<Sign(1), D13(2), WS, Lit("do"), WS, D12f(3), WS, Opt(Lit("bun")), Eos>>)
KorDegRe == Cat(<<Sign(1),
                  Grp(2, Cat(<<Rep(D, 1, 3), Opt(Cat(<<Lit("."), Plus(D)>>))>>)),
                  WS, Lit("do"), Eos>>)

None == [kind |-> "None"]
Raised == [kind |-> "raise"]
Value(v, d) == [kind |-> "value", val |-> v, dir |-> d]
Zero == [ok |-> TRUE, v |-> 0]

\* float(a) + float(b) / 60 + float(c) / 3600; a float() that raises makes
\* the whole expression raise
Sum3(fa, fb, fc) ==
    IF fa.ok /\ fb.ok /\ fc.ok
    THEN [ok |-> TRUE, v |-> fa.v + (fb.v \div 60) + (fc.v \div 3600)]
    ELSE FloatError

\* the same over the groups a, b, c of a match; a group number 0 is a term
\* the expression does not have
Terms(m, s, a, b, c) ==
    Sum3(Float(Group(m, s, a)),
         IF b = 0 THEN Zero ELSE Float(Group(m, s, b)),
         IF c = 0 THEN Zero ELSE Float(Group(m, s, c)))

\* sign = -1 if m.group(1) == "-" else 1; val = sign * (...)
Signed(neg, f) == IF f.ok /\ neg THEN [ok |-> TRUE, v |-> -f.v] ELSE f
Dms(m, s, b, c) == Signed(Group(m, s, 1) = <<"-">>, Terms(m, s, 2, b, c))

\* "m = re.match(...); if m: val = ...": whether the format matched, and the
\* value computed from its groups
NotMatched == [matched |-> FALSE]
TryDms(m, s, b, c) ==
    IF m.ok THEN [matched |-> TRUE, f |-> Dms(m, s, b, c)] ELSE NotMatched
TryFloat(m, s, n) ==
    IF m.ok THEN [matched |-> TRUE, f |-> Float(Group(m, s, n))] ELSE NotMatched
\* the first format that matches wins
OrElse(a, b) == IF a.matched THEN a ELSE b

KoreanValue(t) ==
    IF ~t.matched THEN None
    ELSE IF t.f.ok THEN Value(t.f.v, "") ELSE Raised

_parse_korean_dms(text) ==
    KoreanValue(OrElse(TryDms(ReMatch(KorDmsRe, text), text, 3, 4),
                       OrElse(TryDms(ReMatch(KorDdmRe, text), text, 3, 0),
                              TryDms(ReMatch(KorDegRe, text), text, 0, 0))))

\* lines 162-172: the direction letter, as a prefix or else as a suffix, and
\* the text without it
PickDirection(mp, ms, t0) ==
    IF mp.ok THEN [dir |-> Upper(Group(mp, t0, 1)[1]), rest |-> Strip(Group(mp, t0, 2))]
    ELSE IF ms.ok THEN [dir |-> Upper(Group(ms, t0, 2)[1]), rest |-> Strip(Group(ms, t0, 1))]
    ELSE [dir |-> "", rest |-> t0]
ExtractDirection(t0) ==
    PickDirection(ReMatch(PrefixDirRe, t0), ReMatch(SuffixDirRe, t0), t0)

\* if direction in ("S", "W"): val = -abs(val)
Directed(f, direction) ==
    IF ~f.ok THEN Raised
    ELSE Value(IF direction \in {"S", "W"} THEN -Abs(f.v) ELSE f.v, direction)

\* lines 174-224: the four formats in order, then the Korean fallback
FormatValue(t, direction, text) ==
    IF t.matched THEN Directed(t.f, direction) ELSE _parse_korean_dms(text)
ParseFormats(text, direction) ==
    FormatValue(OrElse(TryDms(ReMatch(DmsRe, text), text, 3, 4),
                       OrElse(TryDms(ReMatch(DdmRe, text), text, 3, 0),
                              OrElse(TryDms(ReMatch(DmsSpaceRe, text), text, 3, 4),
                                     TryFloat(ReMatch(DecimalRe, text), text, 1)))),
                direction, text)
ParseDirected(e) == ParseFormats(e.rest, e.dir)
_parse_single_coord(text) ==
    Then(Strip(text), LAMBDA t0 : Then(ExtractDirection(t0), ParseDirected))

(***************************************************************************)
(* _split_coord_text and parse_coordinates                                 *)
(***************************************************************************)
Contains(s, c) == \E k \in 1..Len(s) : s[k] = c
IndexOf(s, c) == CHOOSE k \in 1..Len(s) : s[k] = c /\ \A j \in 1..(k - 1) : s[j] # c

\* [p.strip() for p in text.split(sep, 1)] when sep is in the text
SplitOnce(s, c) ==
    IF Contains(s, c)
    THEN <<Strip(SubSeq(s, 1, IndexOf(s, c) - 1)),
           Strip(SubSeq(s, IndexOf(s, c) + 1, Len(s)))>>
    ELSE <<<<>>, <<>>>>
BothParts(p) == p[1] # <<>> /\ p[2] # <<>>

\* text.split(): the maximal runs of non-whitespace characters
TokenStarts(s) ==
    {k \in 1..Len(s) : s[k] \notin Space /\ (k = 1 \/ s[k - 1] \in Space)}
TokenEnd(s, k) ==
    CHOOSE n \in k..Len(s) :
        /\ \A j \in k..n : s[j] \notin Space
        /\ n = Len(s) \/ s[n + 1] \in Space
NthStart(starts, j) == CHOOSE k \in starts : Cardinality({m \in starts : m < k}) = j - 1
TokensFrom(s, starts) ==
    SubSeq([j \in 1..Cardinality(starts) |->
               SubSeq(s, NthStart(starts, j), TokenEnd(s, NthStart(starts, j)))],
           1, Cardinality(starts))
Tokens(s) == TokensFrom(s, TokenStarts(s))

DirSplitRe == Cat(<<Grp(1, Cat(<<Lazy(Dot, 1, 99), Chr(DirLetters)>>)),
                    Plus(Chr(Space)), Grp(2, Plus(Dot))>>)

NoParts == <<>>
FirstSplit(comma, semi, m, tab, toks, text) ==
    IF BothParts(comma) THEN comma
    ELSE IF BothParts(semi) THEN semi
    ELSE IF m.ok THEN <<Group(m, text, 1), Group(m, text, 2)>>
    ELSE IF BothParts(tab) THEN tab
    ELSE IF Len(toks) = 2 THEN toks
    ELSE NoParts
_split_coord_text(text) ==
    FirstSplit(SplitOnce(text, ","), SplitOnce(text, ";"), ReMatch(DirSplitRe, text),
               SplitOnce(text, "\t"), Tokens(text), text)

\* lines 112-117, the loop over the two parts: the list coords, or the None
\* (or raise) of the first part that does not parse
BothCoords(r1, r2) ==
    IF r1.kind # "value" THEN r1
    ELSE IF r2.kind # "value" THEN r2
    ELSE [kind |-> "coords", c1 |-> r1, c2 |-> r2]
ParseSplit(parts) ==
    IF parts = NoParts THEN None
    ELSE BothCoords(_parse_single_coord(Strip(parts[1])),
                    _parse_single_coord(Strip(parts[2])))
ParseStripped(text) == IF text = <<>> THEN None ELSE ParseSplit(_split_coord_text(text))
ParseParts(text) == ParseStripped(Strip(text))

Pair(lat, lng) == [kind |-> "pair", lat |-> lat, lng |-> lng]

\* Disambiguate without its second test
DisambiguateFirstTest(c1, c2) ==
    IF c1.dir \in {"E", "W"} /\ c2.dir \notin {"E", "W"} THEN Pair(c2.val, c1.val)
    ELSE Pair(c1.val, c2.val)
\* lines 119-127: direction letters decide the order
Disambiguate(c1, c2) ==
    IF c1.dir \in {"E", "W"} /\ c2.dir \notin {"E", "W"} THEN Pair(c2.val, c1.val)
    ELSE IF c2.dir \in {"N", "S"} /\ c1.dir \notin {"N", "S"} THEN Pair(c2.val, c1.val)
    ELSE Pair(c1.val, c2.val)

Ordered(r) == IF r.kind = "coords" THEN Disambiguate(r.c1, r.c2) ELSE r
parse_coordinates(text) == Ordered(ParseParts(text))

(***************************************************************************)
(* _compile_coord_patterns: the six scanning patterns                      *)
(***************************************************************************)
KOR_DIR == Alt(<<Cat(<<Lit("buk"), Lit("wi")>>), Cat(<<Lit("nam"), Lit("wi")>>),
                 Cat(<<Lit("dong"), Lit("gyeong")>>), Cat(<<Lit("seo"), Lit("gyeong")>>)>>)
SEC == Alt(<<Chr({"\"", "dprime", "rdquote"}), Cat(<<Lit("'"), Lit("'")>>)>>)
MIN == Chr({"'", "prime", "rsquote"})
SepStar == Star(Chr({","} \cup Space))                         \* [,\s]*
SepPlus == Plus(Chr({","} \cup Space))                         \* [,\s]+
D13p(n) == Grp(n, Cat(<<Rep(D, 1, 3), Lit("."), Plus(D)>>))    \* (\d{1,3}\.\d+)
D12p(n) == Grp(n, Cat(<<Opt(Lit("-")), Rep(D, 1, 3), Lit("."), Rep(D, 2, 99)>>))
                                                               \* (-?\d{1,3}\.\d{2,})
\* (?:(\d{1,2})\s*bun\s*(?:(\d{1,2}(?:\.\d+)?)\s*cho?)?)?
KorMinSec(a, b) ==
    Opt(Cat(<<D12(a), WS, Lit("bun"), WS, Opt(Cat(<<D12f(b), WS, Opt(Lit("cho"))>>))>>))

Pattern1 == Cat(<<Grp(1, KOR_DIR), WS, D13(2), WS, Lit("do"), WS, KorMinSec(3, 4), WS,
                  SepStar,
                  Grp(5, KOR_DIR), WS, D13(6), WS, Lit("do"), WS, KorMinSec(7, 8)>>)
Pattern2 == Cat(<<D13(1), WS, Lit("do"), WS, D12(2), WS, Lit("bun"), WS, D12f(3), WS,
                  Opt(Lit("cho")), WS, SepPlus, WS,
                  D13(4), WS, Lit("do"), WS, D12(5), WS, Lit("bun"), WS, D12f(6), WS,
                  Opt(Lit("cho"))>>)
Pattern3 == Cat(<<D13(1), WS, Lit("deg"), WS, D12(2), WS, MIN, WS, D12f(3), WS, Opt(SEC),
                  WS, Grp(4, Chr({"N", "S", "n", "s"})), WS, SepStar,
                  D13(5), WS, Lit("deg"), WS, D12(6), WS, MIN, WS, D12f(7), WS, Opt(SEC),
                  WS, Grp(8, Chr({"E", "W", "e", "w"}))>>)
Pattern4 == Cat(<<D13(1), WS, Lit("deg"), WS, D12f(2), WS, MIN, WS,
                  Grp(3, Chr({"N", "S", "n", "s"})), WS, SepStar,
                  D13(4), WS, Lit("deg"), WS, D12f(5), WS, MIN, WS,
                  Grp(6, Chr({"E", "W", "e", "w"}))>>)
Pattern5 == Cat(<<D13p(1), WS, Opt(Lit("deg")), WS, Grp(2, Chr({"N", "S", "n", "s"})), WS,
                  SepPlus, WS,
                  D13p(3), WS, Opt(Lit("deg")), WS, Grp(4, Chr({"E", "W", "e", "w"}))>>)
Pattern6 == Cat(<<NotBehind({"."} \cup Digits), D12p(1), WS, SepPlus, WS, D12p(2),
                  NotAhead({"."} \cup Digits)>>)

\* the list a complete compilation builds
CompiledPatterns == <<Pattern1, Pattern2, Pattern3, Pattern4, Pattern5, Pattern6>>

(***************************************************************************)
(* scan_coordinates_in_text                                                *)
(***************************************************************************)
\* the preferred match of the pattern from each position of the text
MatchesAt(re, s) ==
    SubSeq([i \in 1..(Len(s) + 1) |-> MatchAt(i, Run(re, s, i, NoGroups))],
           1, Len(s) + 1)

\* pattern.finditer(text): the non-overlapping matches, left to right; ms[j]
\* is the match from position j, and the search is at position i
RECURSIVE Leftmost(_, _)
NextMatch(ms, j) ==
    <<ms[j]>> \o Leftmost(ms, IF ms[j].to > j THEN ms[j].to ELSE j + 1)
Leftmost(ms, i) ==
    IF \A j \in i..Len(ms) : ~ms[j].ok THEN <<>>
    ELSE NextMatch(ms, CHOOSE j \in i..Len(ms) :
                           ms[j].ok /\ \A k \in i..(j - 1) : ~ms[k].ok)
FindIter(re, s, i) == Leftmost(MatchesAt(re, s), i)

\* re.sub(cs+, ' ', text): the first character of a run of cs becomes a space
\* and the others go
Marked(s, cs) ==
    [k \in 1..Len(s) |->
        [c |-> IF s[k] \in cs THEN " " ELSE s[k],
         drop |-> s[k] \in cs /\ k > 1 /\ s[k - 1] \in cs]]
Unmarked(m) == SubSeq([k \in 1..Len(m) |-> m[k].c], 1, Len(m))
SubRuns(s, cs) == Unmarked(SelectSeq(Marked(s, cs), LAMBDA x : ~x.drop))
Normalize(text) == SubRuns(SubRuns(text, {"\r", "\n"}), Space)

_KOREAN_DIRECTIONS(w) ==
    CASE w = <<"buk", "wi">> -> "N" [] w = <<"nam", "wi">> -> "S"
      [] w = <<"dong", "gyeong">> -> "E" [] w = <<"seo", "gyeong">> -> "W"
      [] w = <<"buk">> -> "N" [] w = <<"nam">> -> "S"
      [] w = <<"dong">> -> "E" [] w = <<"seo">> -> "W"
      [] OTHER -> ""

\* _korean_dms_to_decimal(deg, minutes, seconds) on the groups a, b, c of a
\* match; minutes and seconds are None when their group took no part
_korean_dms_to_decimal(m, s, a, b, c) ==
    Terms(m, s, a, IF Present(m, b) THEN b ELSE 0, IF Present(m, c) THEN c ELSE 0)

\* "if ...: v = -v"
Neg(f, flip) == IF f.ok /\ flip THEN [ok |-> TRUE, v |-> -f.v] ELSE f

\* lines 354-368: signs and order of a Korean pair with direction words
KoreanPair(dir1, dir2, v1, v2) ==
    IF dir1 \in {"E", "W"} /\ dir2 \in {"N", "S"}
    THEN <<Neg(v2, dir2 \in {"S", "W"}), Neg(v1, dir1 \in {"S", "W"})>>
    ELSE <<Neg(v1, dir1 \in {"S", "W"}), Neg(v2, dir2 \in {"S", "W"})>>

\* lines 353-405: v1 and v2 of one match of the pattern at index i (0-based,
\* as enumerate numbers it)
CoordValues(i, m, s) ==
    CASE i = 0 -> KoreanPair(_KOREAN_DIRECTIONS(Group(m, s, 1)),
                             _KOREAN_DIRECTIONS(Group(m, s, 5)),
                             _korean_dms_to_decimal(m, s, 2, 3, 4),
                             _korean_dms_to_decimal(m, s, 6, 7, 8))
      [] i = 1 -> <<_korean_dms_to_decimal(m, s, 1, 2, 3),
                    _korean_dms_to_decimal(m, s, 4, 5, 6)>>
      [] i = 2 -> <<Neg(Terms(m, s, 1, 2, 3), Upper(Group(m, s, 4)[1]) = "S"),
                    Neg(Terms(m, s, 5, 6, 7), Upper(Group(m, s, 8)[1]) = "W")>>
      [] i = 3 -> <<Neg(Terms(m, s, 1, 2, 0), Upper(Group(m, s, 3)[1]) = "S"),
                    Neg(Terms(m, s, 4, 5, 0), Upper(Group(m, s, 6)[1]) = "W")>>
      [] i = 4 -> <<Neg(Terms(m, s, 1, 0, 0), Upper(Group(m, s, 2)[1]) = "S"),
                    Neg(Terms(m, s, 3, 0, 0), Upper(Group(m, s, 4)[1]) = "W")>>
      [] i = 5 -> <<Terms(m, s, 1, 0, 0), Terms(m, s, 2, 0, 0)>>

Skip == [kind |-> "skip"]
PairOf(vs) == IF ~vs[1].ok \/ ~vs[2].ok THEN Raised ELSE Pair(vs[1].v, vs[2].v)
\* no branch of the if/elif chain is for an index past 5: coord stays None
Coord(i, m, s) == IF i > 5 THEN Skip ELSE PairOf(CoordValues(i, m, s))

KOREA_LAT_RANGE == <<33 * Unit, (435 * Unit) \div 10>>
KOREA_LNG_RANGE == <<124 * Unit, 132 * Unit>>

\* lines 407-414: the range test that admits a coordinate to the results
InRange(i, lat, lng) ==
    IF i = 5
    THEN /\ KOREA_LAT_RANGE[1] <= lat /\ lat <= KOREA_LAT_RANGE[2]
         /\ KOREA_LNG_RANGE[1] <= lng /\ lng <= KOREA_LNG_RANGE[2]
    ELSE -90 * Unit <= lat /\ lat <= 90 * Unit /\ -180 * Unit <= lng /\ lng <= 180 * Unit

\* an item of results is (lat, lng, matched); pat and from are not in the
\* tuple: they record the index i and the position m.start() it comes from
Admit(i, c, from, matched, acc) ==
    IF c.kind = "raise" THEN Raised
    ELSE IF c.kind = "pair" /\ InRange(i, c.lat, c.lng)
         THEN [kind |-> "list",
               items |-> Append(acc.items, [lat |-> c.lat, lng |-> c.lng, text |-> matched,
                                            pat |-> i, from |-> from])]
         ELSE acc

\* Collect taking the matches of the pattern from the last to the first
RECURSIVE CollectBackwards(_, _, _, _, _)
CollectBackwards(i, ms, k, s, acc) ==
    IF k > Len(ms) \/ acc.kind = "raise" THEN acc
    ELSE CollectBackwards(i, ms, k + 1, s,
                 Admit(i, Coord(i, ms[Len(ms) + 1 - k], s), ms[Len(ms) + 1 - k].from,
                       SubSeq(s, ms[Len(ms) + 1 - k].from, ms[Len(ms) + 1 - k].to - 1), acc))

\* one turn of the outer loop: the matches ms of one pattern, from the k-th
\* on, appended to the results acc
RECURSIVE Collect(_, _, _, _, _)
Collect(i, ms, k, s, acc) ==
    IF k > Len(ms) \/ acc.kind = "raise" THEN acc
    ELSE Collect(i, ms, k + 1, s,
                 Admit(i, Coord(i, ms[k], s), ms[k].from,
                       SubSeq(s, ms[k].from, ms[k].to - 1), acc))

\* (a pattern at an index past 5 is matched too, but its matches leave
\* results as it is)
ScanOne(i, pattern, s, acc) ==
    IF i > 5 THEN acc ELSE Collect(i, FindIter(pattern, s, 1), 1, s, acc)

Tolerance == Unit \div 1000                                    \* tolerance=0.001

\* IsDup comparing the latitudes only
IsDupLatitude(c, unique) ==
    \E k \in 1..Len(unique) : Abs(c.lat - unique[k].lat) < Tolerance

IsDup(c, unique) ==
    \E k \in 1..Len(unique) :
        Abs(c.lat - unique[k].lat) < Tolerance /\ Abs(c.lng - unique[k].lng) < Tolerance

RECURSIVE Dedup(_, _, _)
Dedup(cs, k, unique) ==
    IF k > Len(cs) THEN unique
    ELSE Dedup(cs, k + 1, IF IsDup(cs[k], unique) THEN unique ELSE Append(unique, cs[k]))
_deduplicate_coords(cs) == Dedup(cs, 1, <<>>)

\* "return _deduplicate_coords(results)"
Deduplicated(r) ==
    IF r.kind = "raise" THEN r
    ELSE [kind |-> "list", items |-> _deduplicate_coords(r.items)]

\* scan_coordinates_in_text called alone on a freshly loaded module
RECURSIVE ScanFrom(_, _, _)
ScanFrom(i, s, acc) ==
    IF i >= Len(CompiledPatterns) THEN acc
    ELSE ScanFrom(i + 1, s, ScanOne(i, CompiledPatterns[i + 1], s, acc))
EmptyList == [kind |-> "list", items |-> <<>>]
scan_coordinates_in_text(t) == Deduplicated(ScanFrom(0, Normalize(t), EmptyList))

(***************************************************************************)
(* classify_landcover (GhLandCover.py)                                     *)
(*                                                                         *)
(* A pixel is a record of its channels b, g, r and of the h, s, v that     *)
(* cv2.cvtColor(image_bgr, cv2.COLOR_BGR2HSV) gives it.  s_pct and v_pct   *)
(* are s and v times 100/255 and exg is a quotient by channel_sum: the     *)
(* thresholds are compared after multiplying out the divisions.            *)
(***************************************************************************)
Keys == <<"water", "dense_veg", "sparse_veg", "bare", "built">>
KeySet == {Keys[k] : k \in DOMAIN Keys}

channel_sum(p) == IF p.b + p.g + p.r = 0 THEN 1 ELSE p.b + p.g + p.r
\* exg > n/d and exg <= n/d, for exg = (2g - r - b) / channel_sum
ExgAbove(p, n, d) == d * (2 * p.g - p.r - p.b) > n * channel_sum(p)
\* s_pct > n, s_pct >= n for s_pct = x * 100.0 / 255.0
PctAbove(x, n) == x * 100 > n * 255
PctAtLeast(x, n) == x * 100 >= n * 255

water(p) == p.h >= 90 /\ p.h <= 130 /\ PctAbove(p.s, 30) /\ ~PctAtLeast(p.v, 60)
dense_veg(p) ==
    p.h >= 35 /\ p.h <= 85 /\ PctAbove(p.s, 40) /\ PctAbove(p.v, 30) /\ ExgAbove(p, 1, 20)
sparse_veg_color(p) == p.h >= 35 /\ p.h <= 85 /\ PctAtLeast(p.s, 20) /\ ~PctAbove(p.s, 40)
sparse_veg_exg(p) == ExgAbove(p, 0, 1) /\ ~ExgAbove(p, 1, 20) /\ p.h >= 25 /\ p.h <= 90
sparse_veg(p) == (sparse_veg_color(p) \/ sparse_veg_exg(p)) /\ ~dense_veg(p) /\ ~water(p)
bare(p) ==
    /\ p.h >= 10 /\ p.h <= 30 /\ PctAtLeast(p.s, 20) /\ ~PctAbove(p.s, 60)
    /\ ~water(p) /\ ~dense_veg(p) /\ ~sparse_veg(p)
built(p) == ~PctAtLeast(p.s, 20) /\ ~water(p) /\ ~dense_veg(p) /\ ~sparse_veg(p) /\ ~bare(p)

InClass(key, p) ==
    CASE key = "water" -> water(p)
      [] key = "dense_veg" -> dense_veg(p)
      [] key = "sparse_veg" -> sparse_veg(p)
      [] key = "bare" -> bare(p)
      [] key = "built" -> built(p)

\* Region without the mask
RegionUnmasked(img, msk) == DOMAIN img
\* the pixels counted: those of the mask, or all of them when mask is None
Region(img, msk) ==
    IF msk = None THEN DOMAIN img ELSE {k \in DOMAIN img : msk.at[k]}

\* lines 111-128
ClassCounts(img, region) ==
    [key \in KeySet |-> Cardinality({k \in region : InClass(key, img[k])})]

\* sum(counts.values())
SumValues(c) == c.water + c.dense_veg + c.sparse_veg + c.bare + c.built

\* Redistribute without line 138: no class counted, the counts stay zero
RedistributeCounted(c, total, classified) ==
    IF classified > 0
    THEN [key \in KeySet |-> c[key] + (((total - classified) * c[key]) \div classified)]
    ELSE c
\* lines 130-138: unclassified pixels go to the classes in proportion
Redistribute(c, total, classified) ==
    IF classified > 0
    THEN [key \in KeySet |-> c[key] + (((total - classified) * c[key]) \div classified)]
    ELSE [c EXCEPT !.bare = total]

\* round(n / d) for n >= 0, d > 0: to the nearest integer, a half to the even one
Round(n, d) ==
    IF 2 * (n % d) < d THEN n \div d
    ELSE IF 2 * (n % d) > d THEN (n \div d) + 1
    ELSE IF (n \div d) % 2 = 0 THEN n \div d ELSE (n \div d) + 1

\* lines 141-144
Percentages(c, total_final) == [key \in KeySet |-> Round(c[key] * 100, total_final)]

\* max(result, key=result.get): the first key, in the order of the dict, whose
\* value is the greatest
largest(r) ==
    Keys[CHOOSE k \in DOMAIN Keys :
             /\ \A j \in DOMAIN Keys : r[Keys[j]] <= r[Keys[k]]
             /\ \A j \in 1..(k - 1) : r[Keys[j]] < r[Keys[k]]]

\* Residual without its correction: the rounded percentages as they are
ResidualDropped(r, diff) == r
\* lines 147-151
Residual(r, diff) == IF diff # 0 THEN [r EXCEPT ![largest(r)] = @ + diff] ELSE r

ZeroCounts == [key \in KeySet |-> 0]
Percent(c) == Percentages(c, IF SumValues(c) = 0 THEN 1 ELSE SumValues(c))
Balanced(r) == Residual(r, 100 - SumValues(r))
Finished(c) == [counts |-> c, result |-> Balanced(Percent(c))]
Counted(c, total) ==
    IF total = 0 THEN [counts |-> ZeroCounts, result |-> ZeroCounts]
    ELSE Finished(Redistribute(c, total, SumValues(c)))
InRegion(img, region) == Counted(ClassCounts(img, region), Cardinality(region))
\* the return value, with the counts it was computed from
classify_landcover(img, msk) == InRegion(img, Region(img, msk))

(***************************************************************************)
(* road_distance_to_score, lines 527-542                                   *)
(***************************************************************************)
\* road_distance_to_score with >= for > at 500
road_distance_to_score_inclusive(d) ==
    IF d > 1000 THEN 1
    ELSE IF d >= 500 THEN 2
    ELSE IF d > 200 THEN 3
    ELSE IF d > 50 THEN 4
    ELSE 5

road_distance_to_score(d) ==
    IF d > 1000 THEN 1
    ELSE IF d > 500 THEN 2
    ELSE IF d > 200 THEN 3
    ELSE IF d > 50 THEN 4
    ELSE 5

(***************************************************************************)
(* fetch_road_distance and _closest_point_on_segment                       *)
(*                                                                         *)
(* Latitudes and longitudes of the network are whole degrees; computed     *)
(* ones are exact fractions [n, d] in lowest terms.  Lengths are in units  *)
(* of 55660 m (half of the 111320 m of a degree of latitude), and instead  *)
(* of a distance its square is kept: math.sqrt is increasing, so that      *)
(* comparing squares is comparing distances.                               *)
(***************************************************************************)
RECURSIVE Gcd(_, _)
Gcd(a, b) == IF b = 0 THEN a ELSE Gcd(b, a % b)
\* n / d for d > 0
Frac(n, d) == [n |-> n \div Gcd(Abs(n), d), d |-> d \div Gcd(Abs(n), d)]
\* float("inf")
Infinity == [n |-> 1, d |-> 0]
\* a < b; every fraction is below Infinity and Infinity is not below itself
Less(a, b) == a.n * b.d < b.n * a.d

m_per_deg_lat == 2                               \* 111320.0
\* 111320.0 * cos_lat, for the latitudes whose cosine is 1 and 1/2
m_per_deg_lng(plat) == CASE plat = 0 -> 2 [] plat = 60 -> 1

\* _closest_point_on_segment without the clamp of line 514: the closest point
\* of the line through a and b
_closest_point_on_line(plat, plng, alat, alng, blat, blng) ==
    LET ax == (alng - plng) * m_per_deg_lng(plat)
        ay == (alat - plat) * m_per_deg_lat
        bx == (blng - plng) * m_per_deg_lng(plat)
        by == (blat - plat) * m_per_deg_lat
        dx == bx - ax
        dy == by - ay
        seg_len_sq == dx * dx + dy * dy
        tn == (-ax * dx) - (ay * dy)
        cxn == ax * seg_len_sq + tn * dx
        cyn == ay * seg_len_sq + tn * dy
    IN  IF seg_len_sq = 0
        THEN [lat |-> Frac(alat, 1), lng |-> Frac(alng, 1),
              dist_sq |-> Frac(ax * ax + ay * ay, 1)]
        ELSE [lat |-> Frac(plat * seg_len_sq * m_per_deg_lat + cyn,
                           seg_len_sq * m_per_deg_lat),
              lng |-> Frac(plng * seg_len_sq * m_per_deg_lng(plat) + cxn,
                           seg_len_sq * m_per_deg_lng(plat)),
              dist_sq |-> Frac(cxn * cxn + cyn * cyn, seg_len_sq * seg_len_sq)]
\* lines 492-524
_closest_point_on_segment(plat, plng, alat, alng, blat, blng) ==
    LET ax == (alng - plng) * m_per_deg_lng(plat)
        ay == (alat - plat) * m_per_deg_lat
        bx == (blng - plng) * m_per_deg_lng(plat)
        by == (blat - plat) * m_per_deg_lat
        dx == bx - ax
        dy == by - ay
        seg_len_sq == dx * dx + dy * dy
        \* t = tn / seg_len_sq, clamped to [0, 1]
        tn == Max(0, Min(seg_len_sq, (-ax * dx) - (ay * dy)))
        \* cx and cy times seg_len_sq
        cxn == ax * seg_len_sq + tn * dx
        cyn == ay * seg_len_sq + tn * dy
    IN  IF seg_len_sq = 0
        THEN [lat |-> Frac(alat, 1), lng |-> Frac(alng, 1),
              dist_sq |-> Frac(ax * ax + ay * ay, 1)]
        ELSE [lat |-> Frac(plat * seg_len_sq * m_per_deg_lat + cyn,
                           seg_len_sq * m_per_deg_lat),
              lng |-> Frac(plng * seg_len_sq * m_per_deg_lng(plat) + cxn,
                           seg_len_sq * m_per_deg_lng(plat)),
              dist_sq |-> Frac(cxn * cxn + cyn * cyn, seg_len_sq * seg_len_sq)]

\* lines 462-465: the lookup table nodes; a later element with the same id
\* replaces an earlier one
IsNode(els, k) == els[k].type = "node"
nodes(els) ==
    [id \in {els[k].id : k \in {j \in DOMAIN els : IsNode(els, j)}} |->
        LET k == CHOOSE k \in DOMAIN els :
                     /\ IsNode(els, k) /\ els[k].id = id
                     /\ \A j \in (k + 1)..Len(els) : ~(IsNode(els, j) /\ els[j].id = id)
        IN  <<els[k].lat, els[k].lon>>]

\* way_nodes = [nodes[nid] for nid in nids if nid in nodes]
RECURSIVE way_nodes(_, _)
way_nodes(nids, nd) ==
    IF nids = <<>> THEN <<>>
    ELSE (IF Head(nids) \in DOMAIN nd THEN <<nd[Head(nids)]>> ELSE <<>>)
         \o way_nodes(Tail(nids), nd)

\* Closer with "if dist <= min_dist"
CloserOrEqual(st, c) ==
    [min_dist |-> IF ~Less(st.min_dist, c.dist_sq) THEN c.dist_sq ELSE st.min_dist,
     closest |-> IF ~Less(st.min_dist, c.dist_sq) THEN <<c.lat, c.lng>> ELSE st.closest,
     examined |-> Append(st.examined, c)]
\* lines 482-484: "if dist < min_dist: ..."
Closer(st, c) ==
    [min_dist |-> IF Less(c.dist_sq, st.min_dist) THEN c.dist_sq ELSE st.min_dist,
     closest |-> IF Less(c.dist_sq, st.min_dist) THEN <<c.lat, c.lng>> ELSE st.closest,
     examined |-> Append(st.examined, c)]

\* lines 474-484: "for i in range(len(way_nodes) - 1)", from the i-th node on
RECURSIVE WalkWay(_, _, _, _)
WalkWay(wn, i, p, st) ==
    IF i >= Len(wn) THEN st
    ELSE WalkWay(wn, i + 1, p,
                 Closer(st, _closest_point_on_segment(p[1], p[2], wn[i][1], wn[i][2],
                                                      wn[i + 1][1], wn[i + 1][2])))

\* lines 471-484: one element of the loop; an element that is not a way is
\* passed over
WalkElement(el, els, p, st) ==
    IF el.type # "way" THEN st ELSE WalkWay(way_nodes(el.nodes, nodes(els)), 1, p, st)

\* Outcome without the test for float("inf")
OutcomeUnchecked(md, cl) == [kind |-> "return", dist_sq |-> md, snap |-> cl]
\* lines 486-489
Outcome(md, cl) ==
    IF md = Infinity THEN Raised
    ELSE [kind |-> "return", dist_sq |-> md, snap |-> cl]

(***************************************************************************)
(* fetch_wayback_summer_by_capture and _find_summer_by_release_date        *)
(*                                                                         *)
(* The catalog (config) is the sequence of the items of the decoded JSON   *)
(* object, in its order: the key as the number int(release_num) reads, and *)
(* the fields itemTitle and metadataLayerUrl, each a text, null (None) or  *)
(* Missing.  A time is in whole seconds since the epoch; SRC_DATE2 is 1000 *)
(* times the time it carries, so that src_date / 1000 is that time.        *)
(***************************************************************************)
Missing == [kind |-> "missing"]
Str(s) == [kind |-> "str", s |-> s]
\* info.get(key, ""): the default is for a missing key only
GetOrEmpty(v, empty) == IF v = Missing THEN Str(empty) ELSE v
\* the truth value of the value of a field: None and "" are false
Truthy(v, empty) == v # None /\ v # Str(empty)

\* r'Wayback (\d{4}-\d{2}-\d{2})'
WaybackWord == Cat(<<Lit("W"), Lit("a"), Lit("y"), Lit("b"), Lit("a"), Lit("c"), Lit("k"),
                     Lit(" ")>>)
WaybackRe ==
    Cat(<<WaybackWord,
          Grp(1, Cat(<<Rep(D, 4, 4), Lit("-"), Rep(D, 2, 2), Lit("-"), Rep(D, 2, 2)>>))>>)
\* r'Wayback (\d{4}-(\d{2})-\d{2})'
WaybackMonthRe ==
    Cat(<<WaybackWord,
          Grp(1, Cat(<<Rep(D, 4, 4), Lit("-"), Grp(2, Rep(D, 2, 2)), Lit("-"),
                       Rep(D, 2, 2)>>))>>)

\* re.search(pattern, text): the preferred match from the leftmost position
\* that has one
FirstOk(ms) ==
    IF \A j \in DOMAIN ms : ~ms[j].ok THEN NoMatch
    ELSE ms[CHOOSE j \in DOMAIN ms : ms[j].ok /\ \A k \in 1..(j - 1) : ~ms[k].ok]
ReSearch(re, s) == FirstOk(MatchesAt(re, s))

\* re.search on info.get("itemTitle", ""): a title that is None makes
\* re.search raise TypeError
TitleMatch(re, title) ==
    IF title = None THEN Raised
    ELSE Then(GetOrEmpty(title, <<>>).s,
              LAMBDA s : Then(ReSearch(re, s),
                              LAMBDA m : [kind |-> "match", ok |-> m.ok,
                                          date |-> IF m.ok THEN Group(m, s, 1) ELSE <<>>,
                                          month |-> IF m.ok /\ Present(m, 2)
                                                    THEN IntVal(Group(m, s, 2)) ELSE 0]))

\* a < b for two texts of digits and "-", by code points as str compares
Ord(c) == IF c = "-" THEN 45 ELSE 48 + DigitVal(c)
StrLess(a, b) ==
    \E k \in 1..Len(b) :
        /\ \A j \in 1..(k - 1) : j <= Len(a) /\ a[j] = b[j]
        /\ (k > Len(a) \/ Ord(a[k]) < Ord(b[k]))
\* a < b for two tuples (date_str, release_num, metadata_url); the keys of the
\* catalog are distinct, so that the urls are never compared
VersionLess(a, b) ==
    StrLess(a.date, b.date) \/ (a.date = b.date /\ a.num < b.num)
\* list.sort(reverse=True) of tuples that differ in date or number
SortReverse(vs) ==
    SubSeq([k \in 1..Len(vs) |->
               vs[CHOOSE j \in 1..Len(vs) :
                      Cardinality({i \in 1..Len(vs) : VersionLess(vs[j], vs[i])}) = k - 1]],
           1, Len(vs))

\* lines 586-590: what one item of the catalog gives: a version, nothing, or
\* the TypeError of re.search
Version(date, num, url) == [date |-> date, num |-> num, url |-> url]
Versioned(item, m) ==
    IF m = Raised THEN Raised
    ELSE IF m.ok /\ Truthy(GetOrEmpty(item.url, ""), "")
         THEN [kind |-> "version", v |-> Version(m.date, item.num, item.url)]
         ELSE [kind |-> "skip"]
Items(xs) == [kind |-> "list", items |-> xs]
\* the loop over config.items() and the sort
Sorted(cs) ==
    IF \E k \in DOMAIN cs : cs[k] = Raised THEN Raised
    ELSE Items(SortReverse(SubSeq([k \in 1..Len(cs) |-> cs[k].v], 1, Len(cs))))
Eligible(cs) ==
    IF \E k \in DOMAIN cs : cs[k] = Raised THEN cs
    ELSE SelectSeq(cs, LAMBDA c : c.kind = "version")
\* lines 584-591: the list versions
Versions(cfg) ==
    Sorted(Eligible(SubSeq([k \in 1..Len(cfg) |->
                               Versioned(cfg[k], TitleMatch(WaybackRe, cfg[k].title))],
                           1, Len(cfg))))

\* versions[:tries]: a negative bound counts from the end of the list
Slice(vs, n) ==
    IF n >= 0 THEN SubSeq(vs, 1, Min(n, Len(vs))) ELSE SubSeq(vs, 1, Max(0, Len(vs) + n))

\* time.gmtime(ts) for ts >= 0: the month and the day of the year of a time
IsLeap(y) == y % 4 = 0 /\ (y % 100 # 0 \/ y % 400 = 0)
\* the days from 1970-01-01 to the first day of year y
DaysBefore(y) ==
    365 * (y - 1970) + ((y - 1) \div 4 - (y - 1) \div 100 + (y - 1) \div 400)
                     - (1969 \div 4 - 1969 \div 100 + 1969 \div 400)
MonthDays(y) ==
    <<31, IF IsLeap(y) THEN 29 ELSE 28, 31, 30, 31, 30, 31, 31, 30, 31, 30, 31>>
RECURSIVE DaysBeforeMonth(_, _)
DaysBeforeMonth(y, m) == IF m = 1 THEN 0 ELSE DaysBeforeMonth(y, m - 1) + MonthDays(y)[m - 1]
YearOf(days) ==
    CHOOSE y \in 1970..2099 : DaysBefore(y) <= days /\ days < DaysBefore(y + 1)
MonthOf(y, yday) ==
    CHOOSE m \in 1..12 :
        DaysBeforeMonth(y, m) < yday /\ yday <= DaysBeforeMonth(y, m) + MonthDays(y)[m]
TimeStruct(y, yday) == [tm_year |-> y, tm_mon |-> MonthOf(y, yday), tm_yday |-> yday]
DayOfYear(y, days) == TimeStruct(y, days - DaysBefore(y) + 1)
gmtime(ts) == DayOfYear(YearOf(ts \div 86400), ts \div 86400)

\* the first day of a month, in seconds since the epoch
FirstOf(y, m) == (DaysBefore(y) + DaysBeforeMonth(y, m)) * 86400
\* time.time() of the run: 2026-01-15 00:00 UTC
Now == FirstOf(2026, 1) + 14 * 86400
\* time.time() - 5 * 365.25 * 86400
cutoff_ts == Now - 5 * 36525 * 864
JULY1_YDAY == 182

\* the value of SRC_DATE2: null, a number of milliseconds (here the seconds
\* it is 1000 times of), or a text, which is no number
Number(ts) == [kind |-> "number", v |-> ts]
NotANumber == [kind |-> "text", v |-> 0]
\* the outcome of a point query: urlopen or json.loads raises, or the decoded
\* response with its list features (of at most one feature, its SRC_DATE2)
QueryError == [kind |-> "error"]
Response(features) == [kind |-> "json", features |-> features]

\* (release_num, date_str, metadata_url)
Returned(v) == [kind |-> "entry", num |-> v.num, date |-> v.date, url |-> v.url]

\* Closest with "dist <= best[0]"
ClosestOrEqual(v, dist, st) ==
    IF st.best = None \/ dist <= st.best.dist
    THEN [st EXCEPT !.best = [kind |-> "best", dist |-> dist, v |-> v]]
    ELSE st
\* lines 637-639: best is the first entry at the least distance so far
Closest(v, dist, st) ==
    IF st.best = None \/ dist < st.best.dist
    THEN [st EXCEPT !.best = [kind |-> "best", dist |-> dist, v |-> v]]
    ELSE st
\* Seasoned without the return of line 634: a summer date is a candidate as
\* the others are
SeasonedTracked(v, tm, st) == Closest(v, Abs(tm.tm_yday - JULY1_YDAY), st)
\* lines 630-639
Seasoned(v, tm, st) ==
    IF tm.tm_mon \in {6, 7, 8} THEN [st EXCEPT !.hit = Returned(v)]
    ELSE Closest(v, Abs(tm.tm_yday - JULY1_YDAY), st)
\* lines 626-639, src_date being added to seen_dates: dividing what is no
\* number raises TypeError, which line 640 catches
Fresh(v, src, st) ==
    IF src.kind # "number" THEN st
    ELSE IF src.v < cutoff_ts THEN st
    ELSE Seasoned(v, gmtime(src.v), st)
\* lines 620-624: a null or zero src_date is passed over, and so is one seen
Dated(v, src, st) ==
    IF src = None \/ src = Number(0) THEN st
    ELSE IF src \in st.seen THEN st
    ELSE Fresh(v, src, [st EXCEPT !.seen = @ \cup {src}])
\* Visit where a failed query is not caught
VisitUncaught(v, resp, st) ==
    IF resp = QueryError THEN [st EXCEPT !.hit = Raised]
    ELSE IF resp.features = <<>> THEN st
    ELSE Dated(v, resp.features[1], st)
\* lines 606-641: one turn of the loop for the version v, given the outcome
\* of its query; st is seen_dates and best, and hit the value line 634 returns
Visit(v, resp, st) ==
    IF resp = QueryError THEN st
    ELSE IF resp.features = <<>> THEN st
    ELSE Dated(v, resp.features[1], st)

\* lines 643-653
Conclusion(b, vs) ==
    IF b # None THEN Returned(b.v)
    ELSE IF vs # <<>> THEN Returned(vs[1])
    ELSE None

\* lines 661-666: what one item of the catalog gives _find_summer_by_release_date
SummerVersioned(item, m) ==
    IF m = Raised THEN Raised
    ELSE IF m.ok /\ m.month \in {6, 7, 8}
         THEN [kind |-> "version",
               v |-> Version(m.date, item.num, GetOrEmpty(item.url, ""))]
         ELSE [kind |-> "skip"]
First(r) ==
    IF r = Raised THEN Raised
    ELSE IF r.items # <<>> THEN Returned(r.items[1])
    ELSE None
_find_summer_by_release_date(cfg) ==
    First(Sorted(Eligible(SubSeq(
        [k \in 1..Len(cfg) |->
            SummerVersioned(cfg[k], TitleMatch(WaybackMonthRe, cfg[k].title))],
        1, Len(cfg)))))

(***************************************************************************)
(* analyze_landcover and extract_circle_region (GhLandCover.py)            *)
(*                                                                         *)
(* The raster has the columns 0..w-1 and the rows 0..h-1; a mask is the    *)
(* set of the pixels (x, y) where it is true.                              *)
(***************************************************************************)
\* lines 44-50: mask = dist_sq <= radius_px ** 2, on the grid of the image
extract_circle_region(h, w, center_px, r) ==
    {xy \in (0..(w - 1)) \X (0..(h - 1)) :
        (xy[1] - center_px[1]) * (xy[1] - center_px[1])
            + (xy[2] - center_px[2]) * (xy[2] - center_px[2]) <= r * r}
\* line 170: center = (w // 2, h // 2)
Center(h, w) == <<w \div 2, h \div 2>>
\* lines 174-175: max_radius = min(center[0], center[1]); min(radius_px, max_radius)
Clamped(r, c, h, w) == Min(r, Min(c[1], c[2]))

(***************************************************************************)
(* PdfProcessorWorker (GhPdfExtractor.py)                                  *)
(*                                                                         *)
(* A path stands for what processing its file does: "sites" is a PDF that  *)
(* is read, "unreadable" one that extract_text_from_pdf fails on, which    *)
(* process_single_pdf reports in the result, and "raising" one on which    *)
(* process_single_pdf itself raises.                                       *)
(***************************************************************************)
PdfResult(i, path, error) == [file |-> i, path |-> path, error |-> error]
\* process_single_pdf, lines 89-151: the PdfResult, or the exception
process_single_pdf(i, path) ==
    CASE path = "sites" -> PdfResult(i, path, FALSE)
      [] path = "unreadable" -> PdfResult(i, path, TRUE)     \* lines 98-100
      [] path = "raising" -> Raised
\* Processed where an exception of process_single_pdf ends the batch
ProcessedOrStopped(i, path) == process_single_pdf(i, path)
\* lines 183-191: the result of the i-th file
Processed(i, path) ==
    IF process_single_pdf(i, path) = Raised THEN PdfResult(i, path, TRUE)
    ELSE process_single_pdf(i, path)
\* the signals
Progress(i, total, path) == [sig |-> "progress", i |-> i, total |-> total, path |-> path]
FileCompleted(r) == [sig |-> "file_completed", result |-> r]
AllCompleted(b) == [sig |-> "all_completed", batch |-> b]

(***************************************************************************)
(* run_migrations (migrate.py)                                             *)
(*                                                                         *)
(* A file name is a text; the table _migrations is the sequence of the     *)
(* names inserted, each insert committed as it is executed.                *)
(***************************************************************************)
\* the code point of a character of a file name
Alphabet == <<"a", "b", "c", "d", "e", "f", "g", "h", "i", "j", "k", "l", "m", "n", "o",
              "p", "q", "r", "s", "t", "u", "v", "w", "x", "y", "z">>
CodePoint(c) ==
    IF c = "." THEN 46
    ELSE IF c = "_" THEN 95
    ELSE IF c \in Digits THEN 48 + DigitVal(c)
    ELSE 96 + CHOOSE k \in DOMAIN Alphabet : Alphabet[k] = c
\* a < b for two str
NameLess(a, b) ==
    \E k \in 1..Len(b) :
        /\ \A j \in 1..(k - 1) : j <= Len(a) /\ a[j] = b[j]
        /\ (k > Len(a) \/ CodePoint(a[k]) < CodePoint(b[k]))
\* sorted(names) for distinct names
SortedNames(names) ==
    SubSeq([k \in 1..Len(names) |->
               names[CHOOSE j \in 1..Len(names) :
                        Cardinality({i \in 1..Len(names) : NameLess(names[i], names[j])})
                            = k - 1]],
           1, Len(names))
StartsWith(s, p) == Len(s) >= Len(p) /\ SubSeq(s, 1, Len(p)) = p
EndsWith(s, p) == Len(s) >= Len(p) /\ SubSeq(s, Len(s) - Len(p) + 1, Len(s)) = p
\* line 15
IsMigration(f) == EndsWith(f, <<".", "p", "y">>) /\ ~StartsWith(f, <<"_", "_">>)
\* get_migration_files in the order os.listdir gives
get_migration_files_unsorted(entries) == SelectSeq(entries, IsMigration)
\* lines 10-17, by name (the directory is the same for all)
get_migration_files(entries) == SelectSeq(SortedNames(entries), IsMigration)
\* lines 33-34
get_applied_migrations(table) == {table[k] : k \in DOMAIN table}

(***************************************************************************)
(* The risk score (GhCommons.py) and the evaluation panel                  *)
(* (GhComponents.py, GhEval.py)                                            *)
(*                                                                         *)
(* A float is Double(x); a row of the table of sites is a record with its  *)
(* id and coordinates; an evaluation is known by the id of its site.  The  *)
(* panel is a record p of the fields of EvaluationPanel a handler reads    *)
(* and writes, together with the table of evaluations.                     *)
(***************************************************************************)
Double(x) == [float |-> x]
\* GhCommons.py lines 21-26, in the order of the dict
RISK_LEVELS ==
    <<[level |-> "LOW", low |-> 2, high |-> 4],
      [level |-> "MODERATE", low |-> 5, high |-> 6],
      [level |-> "HIGH", low |-> 7, high |-> 8],
      [level |-> "CRITICAL", low |-> 9, high |-> 10]>>
\* The sum of all the criteria passed
calculate_risk_score_all(road_proximity, vegetation_cover, _kwargs) ==
    road_proximity + vegetation_cover + _kwargs.accessibility + _kwargs.development_signs
\* GhCommons.py lines 78-80
calculate_risk_score(road_proximity, vegetation_cover, _kwargs) ==
    road_proximity + vegetation_cover
\* GhCommons.py lines 83-88: the first level whose range holds the score
get_risk_level(s) ==
    IF \E k \in DOMAIN RISK_LEVELS : RISK_LEVELS[k].low <= s /\ s <= RISK_LEVELS[k].high
    THEN RISK_LEVELS[CHOOSE k \in DOMAIN RISK_LEVELS :
                        /\ RISK_LEVELS[k].low <= s /\ s <= RISK_LEVELS[k].high
                        /\ \A j \in 1..(k - 1) :
                               ~(RISK_LEVELS[j].low <= s /\ s <= RISK_LEVELS[j].high)].level
    ELSE "CRITICAL"

\* GhComponents.py lines 390-395: the keys of CRITERIA
CRITERIA == <<"road_proximity", "accessibility", "vegetation_cover", "development_signs">>
\* GhComponents.py lines 423-425: every slider runs from 1 to 5 and starts at 1
SliderMinimum == 1
SliderMaximum == 5
NewSliders == [key \in {CRITERIA[k] : k \in DOMAIN CRITERIA} |-> SliderMinimum]

\* GhComponents.py lines 796-797 and 804-812: the fields _auto_save writes
Evaluation(p, s) ==
    [road_proximity |-> p.sliders.road_proximity,
     road_distance |-> p._last_road_distance,
     road_snap_lat |-> p._last_road_snap[1],
     road_snap_lng |-> p._last_road_snap[2],
     accessibility |-> p.sliders.accessibility,
     vegetation_cover |-> p.sliders.vegetation_cover,
     development_signs |-> p.sliders.development_signs,
     overall_risk |-> s,
     risk_level |-> get_risk_level(s)]
\* GhComponents.py lines 778-817
_auto_save(p) ==
    IF p._loading \/ p.current_site = None
    THEN p
    ELSE IF p.current_evaluation # None
    THEN [p EXCEPT !.evaluations[p.current_evaluation.site] =
              Evaluation(p, calculate_risk_score(p.sliders.road_proximity,
                                                 p.sliders.vegetation_cover, p.sliders))]
    ELSE [p EXCEPT !.evaluations[p.current_site.id] =
              Evaluation(p, calculate_risk_score(p.sliders.road_proximity,
                                                 p.sliders.vegetation_cover, p.sliders)),
                   !.current_evaluation = [site |-> p.current_site.id]]
\* QSlider.setValue, lines 423-429: the value is kept within the range, and
\* valueChanged, to which _auto_save is connected, is emitted when it changes
setValue(p, key, v) ==
    IF Max(SliderMinimum, Min(SliderMaximum, v)) = p.sliders[key]
    THEN p
    ELSE _auto_save([p EXCEPT !.sliders[key] = Max(SliderMinimum, Min(SliderMaximum, v))])
\* GhComponents.py lines 609-616
_reset_sliders(p) ==
    [setValue(setValue(setValue(setValue(p, CRITERIA[1], 1), CRITERIA[2], 1),
                       CRITERIA[3], 1), CRITERIA[4], 1)
        EXCEPT !._last_road_distance = None, !._last_road_snap = <<None, None>>]
\* GhComponents.py lines 572-579: the evaluation of the site is shown
LoadEvaluation(p, ev, id) ==
    [setValue(setValue(setValue(setValue([p EXCEPT !.current_evaluation = [site |-> id]],
                                         "road_proximity", ev.road_proximity),
                                "accessibility", ev.accessibility),
                       "vegetation_cover", ev.vegetation_cover),
              "development_signs", ev.development_signs)
        EXCEPT !._last_road_distance = ev.road_distance,
               !._last_road_snap = <<ev.road_snap_lat, ev.road_snap_lng>>]
\* GhComponents.py lines 560-607
set_site(p, site) ==
    [(IF site # None /\ p.evaluations[site.id] # None
      THEN LoadEvaluation([p EXCEPT !._loading = TRUE, !.current_site = site,
                                    !._last_road_distance = None,
                                    !._last_road_snap = <<None, None>>],
                          p.evaluations[site.id], site.id)
      ELSE _reset_sliders([p EXCEPT !._loading = TRUE, !.current_site = site,
                                    !._last_road_distance = None,
                                    !._last_road_snap = <<None, None>>,
                                    !.current_evaluation = None]))
        EXCEPT !._loading = FALSE]
\* GhComponents.py lines 705-716: veg_score
VegetationScore(total_veg) ==
    IF total_veg > 60 THEN 1
    ELSE IF total_veg > 40 THEN 2
    ELSE IF total_veg > 20 THEN 3
    ELSE IF total_veg > 5 THEN 4
    ELSE 5
\* GhComponents.py lines 719-730: dev_score
DevelopmentScore(built_pct) ==
    IF built_pct < 5 THEN 1
    ELSE IF built_pct < 15 THEN 2
    ELSE IF built_pct < 30 THEN 3
    ELSE IF built_pct < 50 THEN 4
    ELSE 5
\* GhComponents.py lines 703-731
_apply_landcover_to_sliders(p, total_veg, built_pct) ==
    setValue(setValue(p, "vegetation_cover", VegetationScore(total_veg)),
             "development_signs", DevelopmentScore(built_pct))
\* GhComponents.py lines 733-736: the evaluation is created if there is none
_save_landcover_results(p) ==
    IF p.current_evaluation = None THEN _auto_save(p) ELSE p
\* GhComponents.py lines 634-639 and GhEval.py lines 398-402: what a handler
\* of the signal finished does with the measurement
StoreMeasurement(p, out) ==
    _auto_save(setValue([p EXCEPT !._last_road_distance = out.distance_m,
                                  !._last_road_snap = <<out.snap_lat, out.snap_lng>>],
                        "road_proximity", road_distance_to_score(out.distance_m.float)))
\* GhComponents.py lines 317-320: the thread, and the signal it has emitted
RoadDistanceWorker(lat, lng) == [lat |-> lat, lng |-> lng, signal |-> None]

(***************************************************************************)
(* The inputs                                                              *)
(***************************************************************************)
Pending == [kind |-> "pending"]
Unused == [kind |-> "unused"]

SignedBodies ==
    { <<"3", "7", ".", "5">>, <<"-", "3", "7", ".", "5">>,
      <<"3", "7", "deg", "3", "0", "'", "3", "6", "\"">>,
      <<"-", "3", "7", "deg", "3", "0", "prime", "3", "6", ".", "5">>,
      <<"3", "7", "deg", "3", "0", ".", "5", "'">>,
      <<"-", "3", "7", "deg", "3", "0">>,
      <<"3", "7", " ", "3", "0", " ", "3", "6">>,
      <<"-", "3", "7", " ", "3", "0", " ", "3", "6">>,
      <<"3", "7", "do", " ", "3", "0", "bun", " ", "3", "6", "cho">>,
      <<"-", "3", "7", "do", "3", "0", "bun">>,
      <<"3", "7", "do">>, <<"-", "3", "7", ".", "5", "do">>,
      <<"9", "9", "9">>, <<"3", "7", ".">>, <<"x">>, <<>>, <<"-">>, <<".", "5">> }
DirMarks == {"N", "S", "E", "W", "s", "w"}
Gaps == {<<>>, <<" ">>}
Components ==
    SignedBodies
    \cup {<<d>> \o g \o b : d \in DirMarks, g \in Gaps, b \in SignedBodies}
    \cup {b \o g \o <<d>> : d \in DirMarks, g \in Gaps, b \in SignedBodies}

\* the two halves of the texts given to parse_coordinates
PairBodies ==
    { <<"3", "7", ".", "5">>, <<"-", "3", "7", ".", "5">>,
      <<"1", "2", "7", ".", "2", "5">>, <<"9", "9", "9">>,
      <<"3", "7", "deg", "3", "0", "'", "3", "6", "\"">>,
      <<"3", "7", "do">>, <<"-">>, <<"x">> }
PairComponents ==
    PairBodies
    \cup {<<d>> \o b : d \in {"N", "E"}, b \in PairBodies}
    \cup {b \o <<d>> : d \in {"N", "S", "E", "W"}, b \in PairBodies}
    \cup {b \o <<" ", "s">> : b \in PairBodies}
Separators == {<<",">>, <<",", " ">>, <<";">>, <<" ">>, <<"\t">>}
\* pairs in the Korean form with a Korean direction word before each
\* component, and the latitude and longitude they denote
KoreanPairs ==
    << [text |-> <<"buk", "wi", " ", "3", "7", "do", ",", " ",
                   "dong", "gyeong", " ", "1", "2", "7", "do">>,
        lat |-> 37 * Unit, lng |-> 127 * Unit],
       [text |-> <<"dong", "1", "2", "7", "do", ";", "buk", "3", "7", "do", "3", "0", "bun">>,
        lat |-> 37 * Unit + 30 * (Unit \div 60), lng |-> 127 * Unit],
       [text |-> <<"nam", "wi", " ", "3", "7", "do", ",", " ",
                   "seo", "gyeong", " ", "1", "2", "7", "do">>,
        lat |-> -37 * Unit, lng |-> -127 * Unit] >>
ParseTexts ==
    {a \o sep \o b : a \in PairComponents, sep \in Separators, b \in PairComponents}
    \cup PairComponents \cup {<<>>, <<" ", " ">>, <<"x", " ", "x", " ", "x">>}
    \cup {KoreanPairs[k].text : k \in DOMAIN KoreanPairs}

\* pieces of the texts given to scan_coordinates_in_text
Fragments ==
    << <<"3", "7", ".", "5", "6", "6", "5", ",", " ", "1", "2", "6", ".", "9", "7", "8", "0">>,
       <<"3", "7", ".", "5", "6", "6", "9", ",", " ", "1", "2", "6", ".", "9", "7", "8", "4">>,
       <<"3", "7", ".", "5", "6", "6", "5", ",", " ", "1", "2", "6", ".", "9", "8", "0", "0">>,
       <<"3", "7", "deg", "3", "3", "'", "5", "9", ".", "4", "\"", "N", " ",
         "1", "2", "6", "deg", "5", "8", "'", "4", "0", ".", "8", "\"", "E">>,
       <<"buk", "wi", " ", "3", "7", "do", " ", "3", "3", "bun", " ", "5", "9", ".", "4",
         "cho", ",", " ", "dong", "gyeong", " ", "1", "2", "6", "do", " ", "5", "8", "bun",
         " ", "4", "0", ".", "8", "cho">>,
       <<"3", "7", ".", "5", "6", "6", "5", "N", ",", " ", "1", "2", "6", ".", "9", "7", "8", "E">>,
       <<"1", "2", ".", "3", "4", ",", " ", "5", "6", ".", "7", "8">>,
       <<"3", "7", "deg", "3", "3", ".", "9", "9", "'", "N", " ",
         "1", "2", "6", "deg", "5", "8", ".", "6", "8", "'", "E">>,
       <<"dong", "gyeong", " ", "1", "2", "6", "do", " ", "5", "8", "bun", ",", " ",
         "buk", "wi", " ", "3", "7", "do">>,
       <<"3", "7", "do", " ", "3", "3", "bun", " ", "5", "9", "cho", " ",
         "1", "2", "6", "do", " ", "5", "8", "bun", " ", "4", "1", "cho">>,
       <<"3", "5", ".", "2", "5", "S", ",", " ", "1", "2", "7", ".", "5", "w">>,
       <<"9", "5", ".", "5", "N", ",", " ", "2", "0", "0", ".", "5", "E">>,
       <<"3", "7", ".", "5", "6", "6", "5", ",", " ", "1", "2", "6", ".", "9", "7", "8", "0", ";",
         "3", "7", ".", "5", "6", "6", "9", ",", " ", "1", "2", "6", ".", "9", "7", "8", "4">>,
       <<"3", "7", ".", "5", "6", "7", "6", ",", " ", "1", "2", "6", ".", "9", "7", "8", "4">> >>
Joiner == <<" ", "x", "\n", "\n">>
MaxFragments == 2

RECURSIVE TextsOf(_)
TextsOf(n) ==
    IF n = 0 THEN {<<>>}
    ELSE LET shorter == TextsOf(n - 1)
         IN  shorter \cup {t \o Joiner \o Fragments[k] :
                             t \in shorter, k \in 1..Len(Fragments)}
ScanTexts == TextsOf(MaxFragments)

\* the texts the concurrent callers scan
ThreadTexts == {Fragments[1]}
NThreads == 2

\* pixels, one for each way of falling in a class, and one that is in none
Pixel(b, g, r, h, sat, v) == [b |-> b, g |-> g, r |-> r, h |-> h, s |-> sat, v |-> v]
Palette ==
    << Pixel(120, 60, 30, 110, 191, 120),       \* water
       Pixel(30, 150, 30, 60, 204, 150),        \* dense vegetation
       Pixel(120, 160, 120, 60, 64, 160),       \* sparse vegetation by colour
       Pixel(112, 124, 122, 35, 25, 124),       \* sparse vegetation by ExG
       Pixel(96, 120, 160, 11, 102, 160),       \* bare
       Pixel(128, 128, 128, 0, 0, 128),         \* built
       Pixel(0, 0, 200, 0, 255, 200) >>         \* no class
MaxPixels == 6
\* the images of n pixels, up to the order of the pixels
Images(n) ==
    {[k \in 1..n |-> Palette[c[k]]] :
        c \in {f \in [1..n -> DOMAIN Palette] : \A k \in 1..(n - 1) : f[k] <= f[k + 1]}}
\* no mask, or a boolean array of the shape of the image
Masks(n) == {None} \cup {[kind |-> "array", at |-> m] : m \in [1..n -> BOOLEAN]}
MaxMaskedPixels == 3
\* the images that have the pixels of img where the mask is true, and any
\* pixel of the palette elsewhere
MaskedAlike(img, msk) ==
    {o \in [DOMAIN img -> {Palette[c] : c \in DOMAIN Palette}] :
        \A k \in DOMAIN img : msk.at[k] => o[k] = img[k]}

MaxDistance == 1100

\* the network around the query point: nodes by id, displaced from the point
\* by whole degrees, and ways over them (node 6 is in no response)
Node(id, lat, lon) == [type |-> "node", id |-> id, lat |-> lat, lon |-> lon]
Way(nids) == [type |-> "way", nodes |-> nids]
Points == {<<0, 0>>, <<60, 10>>}
Displaced == << <<1, -1>>, <<1, 1>>, <<-1, 1>>, <<-1, -1>>, <<1, 3>> >>
NodeSets == {{}, {1, 2, 3, 4, 5}, {1, 3, 4, 5}}
AllWays == { <<1, 2>>, <<2, 3>>, <<1, 2, 3>>, <<3, 4, 1>>, <<1, 1>>, <<2, 5>>,
             <<1>>, <<>>, <<1, 6, 3>> }
MaxWays == 2
RECURSIVE SeqsOver(_, _)
SeqsOver(S, n) ==
    IF n = 0 THEN {<<>>}
    ELSE SeqsOver(S, n - 1) \cup
         {Append(q, x) : q \in {r \in SeqsOver(S, n - 1) : Len(r) = n - 1}, x \in S}
RECURSIVE NodesOf(_, _, _)
NodesOf(ids, k, p) ==
    IF k > Len(Displaced) THEN <<>>
    ELSE (IF k \in ids
          THEN <<Node(k, p[1] + Displaced[k][1], p[2] + Displaced[k][2])>> ELSE <<>>)
         \o NodesOf(ids, k + 1, p)
WaysOf(ws) == [k \in DOMAIN ws |-> Way(ws[k])]
\* the elements, nodes before ways or ways before nodes
Networks(p) ==
    {NodesOf(ids, 1, p) \o WaysOf(ws) : ids \in NodeSets, ws \in SeqsOver(AllWays, MaxWays)}
    \cup {WaysOf(ws) \o NodesOf(ids, 1, p) :
            ids \in NodeSets, ws \in SeqsOver(AllWays, MaxWays)}

\* item titles of the catalog
TitleMarch2024 ==
    <<"W", "o", "r", "l", "d", " ", "I", "m", "a", "g", "e", "r", "y", " ", "(", "W",
    "a", "y", "b", "a", "c", "k", " ", "2", "0", "2", "4", "-", "0", "3", "-", "2", "7",
    ")">>
TitleJuly2023 ==
    <<"W", "a", "y", "b", "a", "c", "k", " ", "2", "0", "2", "3", "-", "0", "7", "-",
    "1", "2">>
TitleDecember2022 ==
    <<"W", "a", "y", "b", "a", "c", "k", " ", "2", "0", "2", "2", "-", "1", "2", "-",
    "1", "4">>
TitleAugust2024 ==
    <<"W", "a", "y", "b", "a", "c", "k", " ", "2", "0", "2", "4", "-", "0", "8", "-",
    "0", "1">>
TitleJanuary2025 ==
    <<"W", "a", "y", "b", "a", "c", "k", " ", "2", "0", "2", "5", "-", "0", "1", "-",
    "0", "5">>
TitleUndated ==
    <<"W", "o", "r", "l", "d", " ", "I", "m", "a", "g", "e", "r", "y">>

Item(num, title, url) == [num |-> num, title |-> title, url |-> url]
\* the items a catalog is made of: the release numbers run against the dates;
\* the most recent items lack a usable metadataLayerUrl, and three lack a date
CatalogItems ==
    { Item(10, Str(TitleMarch2024), Str("u10")),
      Item(20, Str(TitleJuly2023), Str("u20")),
      Item(30, Str(TitleDecember2022), Str("u30")),
      Item(40, Str(TitleAugust2024), Missing),
      Item(50, Str(TitleUndated), Str("u50")),
      Item(60, Missing, Str("u60")),
      Item(70, None, Str("u70")),
      Item(80, Str(TitleJanuary2025), None) }
MaxItems == 3
\* the sequences of n distinct items
RECURSIVE CatalogsOf(_)
CatalogsOf(n) ==
    IF n = 0 THEN {<<>>}
    ELSE {Append(c, x) : c \in CatalogsOf(n - 1), x \in CatalogItems} 
Distinct(c) == \A i, j \in DOMAIN c : i # j => c[i] # c[j]
Catalogs == UNION {{c \in CatalogsOf(n) : Distinct(c)} : n \in 0..MaxItems}
\* the values of max_tries: negative, none, fewer than the catalog, the default
TryBudgets == {-1, 0, 1, 2, 30}
\* what a point query can give: a failure, no feature, a feature without
\* SRC_DATE2, a text for a date, and dates: in summer, in spring and in autumn as
\* far from July 1st (122 days), nearer to it in an earlier autumn, and in a
\* summer more than five years back
Responses ==
    { QueryError, Response(<<>>), Response(<<None>>), Response(<<NotANumber>>),
      Response(<<Number(FirstOf(2025, 7) + 9 * 86400)>>),
      Response(<<Number(FirstOf(2025, 3))>>),
      Response(<<Number(FirstOf(2025, 10) + 30 * 86400)>>),
      Response(<<Number(FirstOf(2024, 9) + 14 * 86400 + 3600)>>),
      Response(<<Number(FirstOf(2019, 7))>>) }


\* the sides of the image, and the radii meters_to_pixels returns
MaxSide == 6
MaxRadius == 4
Shapes == (1..MaxSide) \X (1..MaxSide)

\* the batches of PDFs
MaxPdfs == 3
PdfKinds == {"sites", "unreadable", "raising"}
PdfBatches == SeqsOver(PdfKinds, MaxPdfs)

\* the entries of the directory migrations, in the order os.listdir gives
\* them, and the number of runs
FileNames ==
    { <<"0", "0", "1", ".", "p", "y">>, <<"0", "0", "2", ".", "p", "y">>,
      <<"1", "0", ".", "p", "y">>, <<"9", ".", "p", "y">>,
      <<"_", "_", "i", "n", "i", "t", "_", "_", ".", "p", "y">>,
      <<"0", "0", "1", ".", "m", "d">> }
MaxFiles == 3
MaxRuns == 2
Listings == {l \in SeqsOver(FileNames, MaxFiles) : \A j, k \in DOMAIN l : j # k => l[j] # l[k]}

\* the sites of the database, the distances a measurement gives and the
\* percentages a land-cover analysis gives
NSites == 2
SiteIds == 1..NSites
Site(id) == [id |-> id, latitude |-> Double(35 + id), longitude |-> Double(126 + id)]
Distances == {30, 600}
Percents == {0, 10, 50, 70}
UserSliders == {"road_proximity", "vegetation_cover"}

(***************************************************************************)
(* Variables a specification does not use                                  *)
(***************************************************************************)
SingleIdle == comp = <<>> /\ single = Unused
ParseIdle == coords = Unused /\ parsed = Unused
ScanIdle ==
    /\ COORD_PATTERNS = <<>>
    /\ pc = <<>> /\ ck = <<>> /\ idx = <<>> /\ results = <<>> /\ returned = <<>>
CoverIdle ==
    /\ image = <<>> /\ mask = None /\ counts = Unused /\ result = Unused
    /\ other = <<>> /\ result_other = Unused
ScoreIdle == distance_m = 0 /\ score = 0
RoadIdle ==
    /\ point = <<0, 0>> /\ elements = <<>> /\ elem = 0 /\ examined = <<>>
    /\ min_dist = Infinity /\ closest = <<>> /\ fetched = Unused
TextIdle == input = <<>> /\ ParseIdle /\ ScanIdle
WaybackIdle ==
    /\ config = <<>> /\ max_tries = 0 /\ callback = FALSE /\ wpc = "idle"
    /\ versions = <<>> /\ tries = 0 /\ wi = 0 /\ seen_dates = {} /\ best = None
    /\ queries = <<>> /\ progress = <<>> /\ wb = Unused /\ summer = Unused
CircleIdle ==
    /\ shape = <<0, 0>> /\ requested = 0 /\ center = <<0, 0>> /\ radius_px = 0
    /\ circle = Unused
PdfIdle ==
    /\ pdf_paths = <<>> /\ _cancelled = FALSE /\ run_pc = "idle" /\ run_i = 0
    /\ batch = <<>> /\ emitted = <<>>
MigrateIdle ==
    /\ listdir = <<>> /\ _migrations = <<>> /\ applied = {} /\ pending = <<>>
    /\ mig_pc = "idle" /\ runs = 0 /\ migrated = <<>>
PanelIdle ==
    /\ sites = {} /\ evaluations = <<>> /\ current_site = None
    /\ current_evaluation = None /\ sliders = <<>> /\ _last_road_distance = None
    /\ _last_road_snap = <<None, None>> /\ _road_worker = None /\ measure_btn = FALSE
    /\ _analysis_worker = None /\ analyze_btn = FALSE /\ raised = None
AppIdle == CircleIdle /\ PdfIdle /\ MigrateIdle /\ PanelIdle
OtherIdle == CoverIdle /\ ScoreIdle /\ RoadIdle /\ WaybackIdle /\ AppIdle
otherVars == <<coverVars, scoreVars, roadVars, waybackVars, appVars>>
parseVars == <<singleVars, textVars, scanVars>>

(***************************************************************************)
(* _parse_single_coord on one component                                    *)
(***************************************************************************)
InitSingle ==
    /\ comp \in Components /\ single = Pending
    /\ TextIdle /\ OtherIdle

ParseSingle ==
    /\ single = Pending
    /\ single' = _parse_single_coord(comp)
    /\ UNCHANGED <<comp, textVars, scanVars, otherVars>>

NextSingle == ParseSingle
SpecSingle == InitSingle /\ [][NextSingle]_vars

(***************************************************************************)
(* parse_coordinates on one text                                           *)
(***************************************************************************)
InitParse ==
    /\ input \in ParseTexts
    /\ coords = Pending /\ parsed = Pending
    /\ SingleIdle /\ ScanIdle /\ OtherIdle

\* lines 103-117: split and parse both parts; return None when one fails
ParseComponents ==
    /\ coords = Pending /\ parsed = Pending
    /\ \E r \in {ParseParts(input)} :
           IF r.kind = "coords"
           THEN coords' = r /\ parsed' = parsed
           ELSE coords' = Unused /\ parsed' = r
    /\ UNCHANGED <<input, singleVars, scanVars, otherVars>>

\* lines 119-127
Decide ==
    /\ coords.kind = "coords" /\ parsed = Pending
    /\ parsed' = Disambiguate(coords.c1, coords.c2)
    /\ UNCHANGED <<input, coords, singleVars, scanVars, otherVars>>

NextParse == ParseComponents \/ Decide

(***************************************************************************)
(* Threads calling scan_coordinates_in_text(text)                          *)
(***************************************************************************)
Threads == DOMAIN pc

InitThreads(n, patterns) ==
    /\ COORD_PATTERNS = patterns
    /\ pc = [t \in 1..n |-> "call"]
    /\ ck = [t \in 1..n |-> 1]
    /\ idx = [t \in 1..n |-> 0]
    /\ results = [t \in 1..n |-> EmptyList]
    /\ returned = [t \in 1..n |-> Pending]

\* _compile_coord_patterns, lines 273-275: "if _COORD_PATTERNS: return"
CheckCompiled(t) ==
    /\ pc[t] = "call"
    /\ pc' = [pc EXCEPT ![t] = IF COORD_PATTERNS # <<>> THEN "loop" ELSE "compile"]
    /\ UNCHANGED <<COORD_PATTERNS, ck, idx, results, returned, input, coords, parsed,
                   singleVars, otherVars>>

\* one of the six "_COORD_PATTERNS.append(re.compile(...))" statements
AppendPattern(t) ==
    /\ pc[t] = "compile"
    /\ COORD_PATTERNS' = Append(COORD_PATTERNS, ck[t])
    /\ ck' = [ck EXCEPT ![t] = ck[t] + 1]
    /\ pc' = [pc EXCEPT ![t] = IF ck[t] = Len(CompiledPatterns) THEN "loop" ELSE "compile"]
    /\ UNCHANGED <<idx, results, returned, input, coords, parsed, singleVars, otherVars>>

\* one turn of "for i, pattern in enumerate(_COORD_PATTERNS)", lines 348-414
ScanPattern(t) ==
    /\ pc[t] = "loop"
    /\ idx[t] < Len(COORD_PATTERNS)
    /\ \E r \in {ScanOne(idx[t], CompiledPatterns[COORD_PATTERNS[idx[t] + 1]],
                            Normalize(input), results[t])} :
           /\ results' = [results EXCEPT ![t] = r]
           /\ pc' = [pc EXCEPT ![t] = IF r.kind = "raise" THEN "done" ELSE "loop"]
           /\ returned' = [returned EXCEPT ![t] = IF r.kind = "raise" THEN Raised ELSE @]
    /\ idx' = [idx EXCEPT ![t] = idx[t] + 1]
    /\ UNCHANGED <<COORD_PATTERNS, ck, input, coords, parsed, singleVars, otherVars>>

\* the loop is exhausted: "return _deduplicate_coords(results)", line 416
Return(t) ==
    /\ pc[t] = "loop"
    /\ idx[t] >= Len(COORD_PATTERNS)
    /\ returned' = [returned EXCEPT ![t] = Deduplicated(results[t])]
    /\ pc' = [pc EXCEPT ![t] = "done"]
    /\ UNCHANGED <<COORD_PATTERNS, ck, idx, results, input, coords, parsed, singleVars, otherVars>>

NextScan ==
    \E t \in Threads : CheckCompiled(t) \/ AppendPattern(t) \/ ScanPattern(t) \/ Return(t)

\* one caller; the module is fresh or an earlier call has compiled the patterns
InitScan ==
    /\ input \in ScanTexts
    /\ \E p \in {<<>>, [k \in 1..Len(CompiledPatterns) |-> k]} : InitThreads(1, p)
    /\ SingleIdle /\ ParseIdle /\ OtherIdle

\* parse_coordinates or scan_coordinates_in_text, called once on one text
InitText == InitParse \/ InitScan
NextText == NextParse \/ NextScan
SpecText == InitText /\ [][NextText]_vars

\* NThreads callers of scan_coordinates_in_text on a freshly loaded module
InitConcurrent ==
    /\ input \in ThreadTexts
    /\ InitThreads(NThreads, <<>>)
    /\ SingleIdle /\ ParseIdle /\ OtherIdle
SpecConcurrent == InitConcurrent /\ [][NextScan]_vars

(***************************************************************************)
(* classify_landcover(image_bgr, mask)                                     *)
(***************************************************************************)
\* an image of one pixel at least: cv2.cvtColor (line 66) takes no empty image
InitCover ==
    /\ \E n \in 1..MaxPixels : image \in Images(n) /\ mask \in Masks(n)
    /\ counts = Pending /\ result = Pending
    /\ other = <<>> /\ result_other = Unused
    /\ SingleIdle /\ TextIdle /\ AppIdle /\ ScoreIdle /\ RoadIdle /\ WaybackIdle

Classify ==
    /\ result = Pending
    /\ \E r \in {classify_landcover(image, mask)} :
           counts' = r.counts /\ result' = r.result
    /\ UNCHANGED <<image, mask, other, result_other, parseVars, appVars, scoreVars, roadVars,
                   waybackVars>>

NextCover == Classify
SpecCover == InitCover /\ [][NextCover]_vars

\* two calls with the same mask, on images that are the same where the mask
\* is true
InitMask ==
    /\ \E n \in 1..MaxMaskedPixels :
           /\ image \in Images(n)
           /\ mask \in Masks(n) \ {None}
           /\ other \in MaskedAlike(image, mask)
    /\ counts = Pending /\ result = Pending /\ result_other = Pending
    /\ SingleIdle /\ TextIdle /\ AppIdle /\ ScoreIdle /\ RoadIdle /\ WaybackIdle

\* the second call, after the first has returned
ClassifyOther ==
    /\ result # Pending /\ result_other = Pending
    /\ result_other' = classify_landcover(other, mask).result
    /\ UNCHANGED <<image, mask, counts, result, other, parseVars, appVars, scoreVars, roadVars,
                   waybackVars>>

NextMask == Classify \/ ClassifyOther
SpecMask == InitMask /\ [][NextMask]_vars

(***************************************************************************)
(* road_distance_to_score(distance_m)                                      *)
(***************************************************************************)
InitScore ==
    /\ distance_m \in 0..MaxDistance /\ score = 0
    /\ SingleIdle /\ TextIdle /\ AppIdle /\ CoverIdle /\ RoadIdle /\ WaybackIdle

Score ==
    /\ score = 0
    /\ score' = road_distance_to_score(distance_m)
    /\ UNCHANGED <<distance_m, parseVars, appVars, coverVars, roadVars, waybackVars>>

NextScore == Score
SpecScore == InitScore /\ [][NextScore]_vars

(***************************************************************************)
(* fetch_road_distance(lat, lng), from the decoded response on             *)
(***************************************************************************)
InitRoad ==
    /\ point \in Points /\ elements \in Networks(point)
    /\ elem = 0 /\ examined = <<>>
    /\ min_dist = Infinity
    /\ closest = <<Frac(point[1], 1), Frac(point[2], 1)>>
    /\ fetched = Pending
    /\ SingleIdle /\ TextIdle /\ AppIdle /\ CoverIdle /\ ScoreIdle /\ WaybackIdle

\* one turn of "for elem in result.get("elements", [])", lines 471-484
NextElement ==
    /\ fetched = Pending /\ elem < Len(elements)
    /\ elem' = elem + 1
    /\ \E st \in {WalkElement(elements[elem + 1], elements, point,
                              [min_dist |-> min_dist, closest |-> closest,
                               examined |-> examined])} :
           /\ min_dist' = st.min_dist
           /\ closest' = st.closest
           /\ examined' = st.examined
    /\ UNCHANGED <<point, elements, fetched, parseVars, appVars, coverVars, scoreVars, waybackVars>>

\* lines 486-489: raise RuntimeError, or return
Finish ==
    /\ fetched = Pending /\ elem = Len(elements)
    /\ fetched' = Outcome(min_dist, closest)
    /\ UNCHANGED <<point, elements, elem, examined, min_dist, closest, parseVars, appVars,
                   coverVars, scoreVars, waybackVars>>

NextRoad == NextElement \/ Finish
SpecRoad == InitRoad /\ [][NextRoad]_vars


(***************************************************************************)
(* fetch_wayback_summer_by_capture(lat, lng, max_tries, progress_callback) *)
(* from the loaded catalog on, and _find_summer_by_release_date(config)    *)
(***************************************************************************)
\* a call of fetch_wayback_summer_by_capture, the catalog loaded
InitCapture ==
    /\ config \in Catalogs /\ max_tries \in TryBudgets /\ callback \in BOOLEAN
    /\ wpc = "start" /\ versions = <<>> /\ tries = 0 /\ wi = 0
    /\ seen_dates = {} /\ best = None /\ queries = <<>> /\ progress = <<>>
    /\ wb = Pending /\ summer = Unused
    /\ SingleIdle /\ TextIdle /\ AppIdle /\ CoverIdle /\ ScoreIdle /\ RoadIdle
\* a call of _find_summer_by_release_date
InitSummer ==
    /\ config \in Catalogs /\ max_tries = 0 /\ callback = FALSE
    /\ wpc = "idle" /\ versions = <<>> /\ tries = 0 /\ wi = 0
    /\ seen_dates = {} /\ best = None /\ queries = <<>> /\ progress = <<>>
    /\ wb = Unused /\ summer = Pending
    /\ SingleIdle /\ TextIdle /\ AppIdle /\ CoverIdle /\ ScoreIdle /\ RoadIdle
InitWayback == InitCapture \/ InitSummer

\* lines 584-600
CollectVersions ==
    /\ wpc = "start"
    /\ \E r \in {Versions(config)} :
           IF r = Raised
           THEN /\ wb' = Raised /\ wpc' = "done"
                /\ UNCHANGED <<versions, tries>>
           ELSE /\ versions' = r.items
                /\ tries' = Min(Len(r.items), max_tries)
                /\ wpc' = "loop" /\ wb' = wb
    /\ UNCHANGED <<config, max_tries, callback, wi, seen_dates, best, queries, progress,
                   summer, parseVars, appVars, coverVars, scoreVars, roadVars>>

\* one turn of the loop of line 602, the query answered by resp
QueryEntry ==
    /\ wpc = "loop" /\ wi < Len(Slice(versions, tries))
    /\ wi' = wi + 1
    /\ progress' = IF callback
                   THEN Append(progress, [msg |-> "Checking imagery", i |-> wi + 1,
                                          n |-> tries])
                   ELSE progress
    /\ \E resp \in Responses :
           /\ queries' = Append(queries, [v |-> versions[wi + 1], resp |-> resp])
           /\ \E st \in {Visit(versions[wi + 1], resp,
                               [seen |-> seen_dates, best |-> best, hit |-> None])} :
                  /\ seen_dates' = st.seen
                  /\ best' = st.best
                  /\ IF st.hit # None
                     THEN wb' = st.hit /\ wpc' = "done"
                     ELSE wb' = wb /\ wpc' = wpc
    /\ UNCHANGED <<config, max_tries, callback, versions, tries, summer, parseVars, appVars,
                   coverVars, scoreVars, roadVars>>

\* lines 643-653, the loop being over
Conclude ==
    /\ wpc = "loop" /\ wi >= Len(Slice(versions, tries))
    /\ progress' = IF best # None /\ callback
                   THEN Append(progress, [msg |-> "Using closest to summer"])
                   ELSE progress
    /\ wb' = Conclusion(best, versions)
    /\ wpc' = "done"
    /\ UNCHANGED <<config, max_tries, callback, versions, tries, wi, seen_dates, best,
                   queries, summer, parseVars, appVars, coverVars, scoreVars, roadVars>>

\* _find_summer_by_release_date on the catalog
FindSummer ==
    /\ summer = Pending
    /\ summer' = _find_summer_by_release_date(config)
    /\ UNCHANGED <<config, max_tries, callback, wpc, versions, tries, wi, seen_dates,
                   best, queries, progress, wb, parseVars, appVars, coverVars, scoreVars, roadVars>>

NextWayback == CollectVersions \/ QueryEntry \/ Conclude \/ FindSummer
SpecWayback == InitWayback /\ [][NextWayback]_vars

(***************************************************************************)
(* analyze_landcover(qpixmap, lat, lng, zoom, radius_m), from the image    *)
(* and the radius in pixels on, up to the call of classify_landcover       *)
(***************************************************************************)
InitCircle ==
    /\ shape \in Shapes /\ requested \in 0..MaxRadius
    /\ center = <<0, 0>> /\ radius_px = 0 /\ circle = Pending
    /\ SingleIdle /\ TextIdle /\ CoverIdle /\ ScoreIdle /\ RoadIdle /\ WaybackIdle
    /\ PdfIdle /\ MigrateIdle /\ PanelIdle

\* lines 169-177
Analyze ==
    /\ circle = Pending
    /\ center' = Center(shape[1], shape[2])
    /\ \E r \in {Clamped(requested, Center(shape[1], shape[2]), shape[1], shape[2])} :
           /\ radius_px' = r
           /\ circle' = [kind |-> "mask",
                         at |-> extract_circle_region(shape[1], shape[2],
                                                      Center(shape[1], shape[2]), r)]
    /\ UNCHANGED <<shape, requested, parseVars, coverVars, scoreVars, roadVars, waybackVars,
                   pdfVars, migrateVars, panelVars>>

NextCircle == Analyze
SpecCircle == InitCircle /\ [][NextCircle]_vars

(***************************************************************************)
(* PdfProcessorWorker.run in its thread, and cancel() called from the      *)
(* thread of the interface                                                 *)
(***************************************************************************)
InitPdf ==
    /\ pdf_paths \in PdfBatches /\ _cancelled = FALSE
    /\ run_pc = "loop" /\ run_i = 0 /\ batch = <<>> /\ emitted = <<>>
    /\ SingleIdle /\ TextIdle /\ CoverIdle /\ ScoreIdle /\ RoadIdle /\ WaybackIdle
    /\ CircleIdle /\ MigrateIdle /\ PanelIdle

\* cancel(), line 170
Cancel ==
    /\ run_pc # "idle" /\ ~_cancelled
    /\ _cancelled' = TRUE
    /\ UNCHANGED <<pdf_paths, run_pc, run_i, batch, emitted, parseVars, coverVars,
                   scoreVars, roadVars, waybackVars, circleVars, migrateVars, panelVars>>

\* lines 176-181: the next turn of the loop begins, or the loop ends
BeginFile ==
    /\ run_pc = "loop"
    /\ IF run_i >= Len(pdf_paths) \/ _cancelled
       THEN run_pc' = "finish" /\ emitted' = emitted
       ELSE /\ run_pc' = "process"
            /\ emitted' = Append(emitted,
                                 Progress(run_i + 1, Len(pdf_paths), pdf_paths[run_i + 1]))
    /\ UNCHANGED <<pdf_paths, _cancelled, run_i, batch, parseVars, coverVars, scoreVars,
                   roadVars, waybackVars, circleVars, migrateVars, panelVars>>

\* lines 183-194
ProcessFile ==
    /\ run_pc = "process"
    /\ \E r \in {Processed(run_i + 1, pdf_paths[run_i + 1])} :
           IF r = Raised
           THEN run_pc' = "raised" /\ UNCHANGED <<batch, emitted, run_i>>
           ELSE /\ batch' = Append(batch, r)
                /\ emitted' = Append(emitted, FileCompleted(r))
                /\ run_i' = run_i + 1
                /\ run_pc' = "loop"
    /\ UNCHANGED <<pdf_paths, _cancelled, parseVars, coverVars, scoreVars, roadVars,
                   waybackVars, circleVars, migrateVars, panelVars>>

\* line 196
EmitAll ==
    /\ run_pc = "finish"
    /\ emitted' = Append(emitted, AllCompleted(batch))
    /\ run_pc' = "done"
    /\ UNCHANGED <<pdf_paths, _cancelled, run_i, batch, parseVars, coverVars,
                   scoreVars, roadVars, waybackVars, circleVars, migrateVars, panelVars>>

RunPdf == BeginFile \/ ProcessFile \/ EmitAll
NextPdf == Cancel \/ RunPdf
\* the thread of run is scheduled as long as it has a step to take
SpecPdf == InitPdf /\ [][NextPdf]_vars /\ WF_vars(RunPdf)

(***************************************************************************)
(* Runs of run_migrations on one database, one after the other             *)
(***************************************************************************)
InitMigrate ==
    /\ listdir \in Listings /\ _migrations = <<>> /\ applied = {} /\ pending = <<>>
    /\ mig_pc = "rest" /\ runs = 0 /\ migrated = <<>>
    /\ SingleIdle /\ TextIdle /\ CoverIdle /\ ScoreIdle /\ RoadIdle /\ WaybackIdle
    /\ CircleIdle /\ PdfIdle /\ PanelIdle

\* lines 42-49: the table is read and the files are listed
StartRun ==
    /\ mig_pc = "rest" /\ runs < MaxRuns
    /\ runs' = runs + 1
    /\ applied' = get_applied_migrations(_migrations)
    /\ pending' = get_migration_files(listdir)
    /\ mig_pc' = "run"
    /\ UNCHANGED <<listdir, _migrations, migrated, parseVars, coverVars, scoreVars,
                   roadVars, waybackVars, circleVars, pdfVars, panelVars>>

\* lines 51-52: "if name in applied: continue"
SkipApplied ==
    /\ mig_pc = "run" /\ pending # <<>> /\ Head(pending) \in applied
    /\ pending' = Tail(pending)
    /\ UNCHANGED <<listdir, _migrations, applied, mig_pc, runs, migrated, parseVars,
                   coverVars, scoreVars, roadVars, waybackVars, circleVars, pdfVars, panelVars>>

\* lines 54-61: migrate(db) returns and the name is inserted, or it raises
\* and run_migrations ends with its exception
Migrate ==
    /\ mig_pc = "run" /\ pending # <<>> /\ Head(pending) \notin applied
    /\ \E ok \in BOOLEAN :
           /\ migrated' = Append(migrated, [name |-> Head(pending), run |-> runs, ok |-> ok])
           /\ IF ok
              THEN /\ _migrations' = Append(_migrations, Head(pending))
                   /\ pending' = Tail(pending) /\ mig_pc' = mig_pc
              ELSE /\ _migrations' = _migrations
                   /\ pending' = <<>> /\ mig_pc' = "rest"
    /\ UNCHANGED <<listdir, applied, runs, parseVars, coverVars, scoreVars, roadVars,
                   waybackVars, circleVars, pdfVars, panelVars>>

\* lines 63-64
EndRun ==
    /\ mig_pc = "run" /\ pending = <<>>
    /\ mig_pc' = "rest"
    /\ UNCHANGED <<listdir, _migrations, applied, pending, runs, migrated, parseVars,
                   coverVars, scoreVars, roadVars, waybackVars, circleVars, pdfVars, panelVars>>

NextMigrate == StartRun \/ SkipApplied \/ Migrate \/ EndRun
SpecMigrate == InitMigrate /\ [][NextMigrate]_vars

(***************************************************************************)
(* The main window with its evaluation panel: the user selects, deselects  *)
(* and deletes sites, moves the sliders and starts measurements, while the *)
(* workers run in their threads and their signals reach the GUI thread     *)
(* later, one handler at a time.                                           *)
(***************************************************************************)
\* the panel, as the handlers find it
Panel ==
    [current_site |-> current_site, current_evaluation |-> current_evaluation,
     _loading |-> FALSE, sliders |-> sliders,
     _last_road_distance |-> _last_road_distance, _last_road_snap |-> _last_road_snap,
     evaluations |-> evaluations]
\* the panel, as a handler leaves it
Leave(p) ==
    /\ current_site' = p.current_site
    /\ current_evaluation' = p.current_evaluation
    /\ sliders' = p.sliders
    /\ _last_road_distance' = p._last_road_distance
    /\ _last_road_snap' = p._last_road_snap
    /\ evaluations' = p.evaluations
restVars == <<parseVars, coverVars, scoreVars, roadVars, waybackVars, circleVars, pdfVars,
              migrateVars>>

\* GhComponents.py lines 397-403 and 408-410, with the sites of the database
PanelStart(ids) ==
    /\ sites = ids /\ evaluations = [id \in ids |-> None]
    /\ current_site = None /\ current_evaluation = None /\ sliders = NewSliders
    /\ _last_road_distance = None /\ _last_road_snap = <<None, None>>
    /\ _road_worker = None /\ measure_btn = TRUE
    /\ _analysis_worker = None /\ analyze_btn = TRUE /\ raised = None
    /\ SingleIdle /\ TextIdle /\ CoverIdle /\ ScoreIdle /\ RoadIdle /\ WaybackIdle
    /\ CircleIdle /\ PdfIdle /\ MigrateIdle
InitPanel == PanelStart(SiteIds)
InitRisk == PanelStart({1})

\* GhEval.py lines 229-235: a site of the list, or none, is selected
SelectSite ==
    /\ \E site \in {None} \cup {Site(id) : id \in sites} : Leave(set_site(Panel, site))
    /\ UNCHANGED <<sites, _road_worker, measure_btn, _analysis_worker, analyze_btn,
                   raised, restVars>>

\* GhEval.py lines 311-327: the site and, recursively, its evaluations go
DeleteSite ==
    /\ current_site # None
    /\ sites' = sites \ {current_site.id}
    /\ Leave(set_site([Panel EXCEPT !.evaluations[current_site.id] = None], None))
    /\ UNCHANGED <<_road_worker, measure_btn, _analysis_worker, analyze_btn, raised,
                   restVars>>

\* GhComponents.py lines 422-429: the user moves one of the sliders shown
MoveSlider ==
    /\ \E key \in UserSliders, v \in SliderMinimum..SliderMaximum :
           /\ v # sliders[key]
           /\ Leave(setValue(Panel, key, v))
    /\ UNCHANGED <<sites, _road_worker, measure_btn, _analysis_worker, analyze_btn,
                   raised, restVars>>

\* GhComponents.py lines 678-684: the result of a land-cover analysis arrives
OnLandcoverFinished ==
    /\ \E total_veg \in Percents, built_pct \in Percents :
           Leave(_save_landcover_results(
                     _apply_landcover_to_sliders(Panel, total_veg, built_pct)))
    /\ UNCHANGED <<sites, _road_worker, measure_btn, _analysis_worker, analyze_btn,
                   raised, restVars>>

\* GhComponents.py lines 618-631
MeasureRoadDistance ==
    /\ measure_btn /\ current_site # None
    /\ measure_btn' = FALSE
    /\ _road_worker' = RoadDistanceWorker(current_site.latitude, current_site.longitude)
    /\ UNCHANGED <<sites, evaluations, current_site, current_evaluation, sliders,
                   _last_road_distance, _last_road_snap, _analysis_worker, analyze_btn,
                   raised, restVars>>

\* GhComponents.py lines 322-327: the thread of a worker ends and emits
\* finished, with a distance and the point of the road next to (lat, lng),
\* or error
Emits(w) ==
    {[w EXCEPT !.signal = [name |-> "finished", distance_m |-> Double(d),
                           snap_lat |-> w.lat, snap_lng |-> w.lng]] : d \in Distances}
        \cup {[w EXCEPT !.signal = [name |-> "error"]]}
RoadWorkerRun ==
    /\ _road_worker # None /\ _road_worker.signal = None
    /\ _road_worker' \in Emits(_road_worker)
    /\ UNCHANGED <<sites, evaluations, current_site, current_evaluation, sliders,
                   _last_road_distance, _last_road_snap, measure_btn, _analysis_worker,
                   analyze_btn, raised, restVars>>
AnalysisWorkerRun ==
    /\ _analysis_worker # None /\ _analysis_worker.signal = None
    /\ _analysis_worker' \in Emits(_analysis_worker)
    /\ UNCHANGED <<sites, evaluations, current_site, current_evaluation, sliders,
                   _last_road_distance, _last_road_snap, _road_worker, measure_btn,
                   analyze_btn, raised, restVars>>

\* GhComponents.py lines 633-645: line 641 reads self.current_site.latitude
OnMeasureFinished ==
    /\ _road_worker # None /\ _road_worker.signal # None
    /\ _road_worker.signal.name = "finished"
    /\ Leave(StoreMeasurement(Panel, _road_worker.signal))
    /\ IF current_site = None
       THEN /\ raised' = [name |-> "AttributeError"]
            /\ _road_worker' = [_road_worker EXCEPT !.signal = [name |-> "handled"]]
            /\ UNCHANGED measure_btn
       ELSE /\ measure_btn' = TRUE /\ _road_worker' = None
            /\ UNCHANGED raised
    /\ UNCHANGED <<sites, _analysis_worker, analyze_btn, restVars>>

\* GhComponents.py lines 647-652
OnMeasureError ==
    /\ _road_worker # None /\ _road_worker.signal # None
    /\ _road_worker.signal.name = "error"
    /\ measure_btn' = TRUE /\ _road_worker' = None
    /\ UNCHANGED <<sites, evaluations, current_site, current_evaluation, sliders,
                   _last_road_distance, _last_road_snap, _analysis_worker, analyze_btn,
                   raised, restVars>>

\* GhEval.py lines 371-389
RunFullAnalysis ==
    /\ analyze_btn /\ current_site # None
    /\ analyze_btn' = FALSE
    /\ _analysis_worker' = RoadDistanceWorker(current_site.latitude, current_site.longitude)
    /\ UNCHANGED <<sites, evaluations, current_site, current_evaluation, sliders,
                   _last_road_distance, _last_road_snap, _road_worker, measure_btn,
                   raised, restVars>>

\* GhEval.py lines 391-413; without a site, _analysis_finish, lines 457-470
AnalysisRoadDone ==
    /\ _analysis_worker # None /\ _analysis_worker.signal # None
    /\ _analysis_worker.signal.name = "finished"
    /\ IF current_site = None
       THEN /\ analyze_btn' = TRUE /\ _analysis_worker' = None
            /\ UNCHANGED <<evaluations, current_site, current_evaluation, sliders,
                           _last_road_distance, _last_road_snap>>
       ELSE /\ Leave(StoreMeasurement(Panel, _analysis_worker.signal))
            /\ _analysis_worker' = [_analysis_worker EXCEPT !.signal = [name |-> "handled"]]
            /\ UNCHANGED analyze_btn
    /\ UNCHANGED <<sites, _road_worker, measure_btn, raised, restVars>>

\* GhEval.py lines 472-475
AnalysisError ==
    /\ _analysis_worker # None /\ _analysis_worker.signal # None
    /\ _analysis_worker.signal.name = "error"
    /\ analyze_btn' = TRUE /\ _analysis_worker' = None
    /\ UNCHANGED <<sites, evaluations, current_site, current_evaluation, sliders,
                   _last_road_distance, _last_road_snap, _road_worker, measure_btn,
                   raised, restVars>>

\* GhEval.py lines 415-470: the captures that follow, up to _analysis_finish
AnalysisFinish ==
    /\ _analysis_worker # None /\ _analysis_worker.signal # None
    /\ _analysis_worker.signal.name = "handled"
    /\ analyze_btn' = TRUE /\ _analysis_worker' = None
    /\ UNCHANGED <<sites, evaluations, current_site, current_evaluation, sliders,
                   _last_road_distance, _last_road_snap, _road_worker, measure_btn,
                   raised, restVars>>

\* the sites, the measurements and the full analyses, the sliders left to
\* the handlers
NextPanel ==
    \/ SelectSite \/ DeleteSite
    \/ MeasureRoadDistance \/ RoadWorkerRun \/ OnMeasureFinished \/ OnMeasureError
    \/ RunFullAnalysis \/ AnalysisWorkerRun \/ AnalysisRoadDone \/ AnalysisError
    \/ AnalysisFinish
SpecPanel == InitPanel /\ [][NextPanel]_vars
\* one site, with all that writes its evaluation: the sliders, the land-cover
\* results and the measurements of the panel
NextRisk ==
    \/ SelectSite \/ MoveSlider \/ OnLandcoverFinished
    \/ MeasureRoadDistance \/ RoadWorkerRun \/ OnMeasureFinished \/ OnMeasureError
SpecRisk == InitRisk /\ [][NextRisk]_vars

(***************************************************************************)
(* Properties                                                              *)
(***************************************************************************)
\* C1: for a region of at least one pixel classify_landcover returns exactly
\* the five keys, each value an integer >= 0, and the values sum to 100.
C1_PercentagesSumTo100 ==
    (result \notin {Pending, Unused} /\ Region(image, mask) # {}) =>
        /\ DOMAIN result = {"dense_veg", "sparse_veg", "bare", "built", "water"}
        /\ \A key \in DOMAIN result : result[key] \in Nat
        /\ result.dense_veg + result.sparse_veg + result.bare + result.built
               + result.water = 100
\* C1: a region classified whose rounded percentages sum to 101, so that the
\* largest class gives one up
C1_Witness ==
    /\ result \notin {Pending, Unused} /\ Region(image, mask) # {}
    /\ SumValues(Percent(counts)) = 101
    /\ result # Percent(counts)

\* C2: once both components parsed to (v1, d1) and (v2, d2), the result is
\* (v2, v1) exactly when (d1 is E or W and d2 is not) or (d2 is N or S and d1
\* is not), and (v1, v2) in every other case.
C2_SwapExactlyByDirection ==
    (coords \notin {Pending, Unused} /\ parsed # Pending) =>
        LET d1 == coords.c1.dir
            d2 == coords.c2.dir
            swap == \/ (d1 \in {"E", "W"} /\ d2 \notin {"E", "W"})
                    \/ (d2 \in {"N", "S"} /\ d1 \notin {"N", "S"})
        IN  /\ swap => parsed = [kind |-> "pair", lat |-> coords.c2.val,
                                 lng |-> coords.c1.val]
            /\ ~swap => parsed = [kind |-> "pair", lat |-> coords.c1.val,
                                  lng |-> coords.c2.val]
\* C2: a pair swapped on the strength of the second component's N alone
C2_Witness ==
    /\ coords \notin {Pending, Unused} /\ parsed # Pending
    /\ coords.c1.dir = "" /\ coords.c2.dir = "N"
    /\ coords.c1.val # coords.c2.val
    /\ parsed.lat = coords.c2.val /\ parsed.lng = coords.c1.val

\* C3: every result of parse_coordinates is None or a pair (lat, lon) with
\* lat in [-90, 90] and lon in [-180, 180].
C3_ResultInRange ==
    parsed \notin {Pending, Unused} =>
        \/ parsed = None
        \/ /\ parsed.kind = "pair"
           /\ -90 * Unit <= parsed.lat /\ parsed.lat <= 90 * Unit
           /\ -180 * Unit <= parsed.lng /\ parsed.lng <= 180 * Unit

\* C4: when _parse_single_coord accepts a component in which a direction
\* letter S or W was found, the value is minus the absolute value of the
\* magnitude, which is what the component without the letter parses to.
C4_SouthWestNegative ==
    (single \notin {Pending, Unused, None, Raised}
        /\ ExtractDirection(Strip(comp)).dir \in {"S", "W"}) =>
        /\ _parse_single_coord(ExtractDirection(Strip(comp)).rest).kind = "value"
        /\ single.val = -Abs(_parse_single_coord(ExtractDirection(Strip(comp)).rest).val)

\* C5: parse_coordinates and scan_coordinates_in_text never raise:
\* parse_coordinates returns a pair or None, None for an empty or blank text
\* and for a text that does not split into two components that parse;
\* scan_coordinates_in_text returns a list.
C5_NeverRaises ==
    /\ parsed \notin {Pending, Unused} =>
           /\ parsed.kind \in {"pair", "None"}
           /\ Strip(input) = <<>> => parsed = None
           /\ _split_coord_text(Strip(input)) = NoParts => parsed = None
           /\ coords = Unused => parsed = None
    /\ coords # Raised
    /\ \A t \in Threads :
           /\ results[t].kind = "list"
           /\ returned[t] # Pending => returned[t].kind = "list"
\* C5: a text that is not blank and splits in two, of which a part does not
\* parse, has been given None
C5_Witness ==
    /\ parsed = None /\ Strip(input) # <<>>
    /\ _split_coord_text(Strip(input)) # NoParts

\* C6: no two matches of the returned list are within 0.001 degrees of each
\* other in both latitude and longitude, and every candidate that is not
\* returned is within 0.001 degrees on both axes of a candidate found earlier
\* that is returned.
C6_Near(a, b) == Abs(a.lat - b.lat) < Tolerance /\ Abs(a.lng - b.lng) < Tolerance
C6_Deduplicated ==
    \A t \in Threads :
        (returned[t] # Pending /\ returned[t].kind = "list") =>
            LET kept == returned[t].items
                found == results[t].items
            IN  /\ \A i, j \in DOMAIN kept : i < j => ~C6_Near(kept[i], kept[j])
                /\ \A j \in DOMAIN kept : \E k \in DOMAIN found : found[k] = kept[j]
                /\ \A k \in DOMAIN found :
                       \/ \E j \in DOMAIN kept : kept[j] = found[k]
                       \/ \E i \in 1..(k - 1) :
                              /\ \E j \in DOMAIN kept : kept[j] = found[i]
                              /\ C6_Near(found[k], found[i])
\* C6: a list returned with two matches that are apart, from which a candidate
\* near an earlier one was dropped
C6_Witness ==
    \E t \in Threads :
        /\ returned[t] # Pending /\ returned[t].kind = "list"
        /\ Len(returned[t].items) >= 2
        /\ Len(results[t].items) > Len(returned[t].items)

\* C7: every call of scan_coordinates_in_text returns the list a single call
\* alone returns for the text, also when the calls run concurrently and are the
\* first ones, which compile the module's pattern list.
C7_SameListConcurrently ==
    \A t \in Threads :
        pc[t] = "done" => returned[t] = scan_coordinates_in_text(input)

\* C8: road_distance_to_score(d) is 1 for d > 1000, 2 for 500 < d <= 1000, 3
\* for 200 < d <= 500, 4 for 50 < d <= 200 and 5 for d <= 50; it is in 1..5 and
\* never increases when d increases.
C8_ScoreThresholds ==
    score # 0 =>
        /\ score \in 1..5
        /\ distance_m > 1000 => score = 1
        /\ (500 < distance_m /\ distance_m <= 1000) => score = 2
        /\ (200 < distance_m /\ distance_m <= 500) => score = 3
        /\ (50 < distance_m /\ distance_m <= 200) => score = 4
        /\ distance_m <= 50 => score = 5
        /\ \A d \in 0..distance_m : road_distance_to_score(d) >= score
\* C8: the score 3 given at the boundary 500
C8_Witness == distance_m = 500 /\ score = 3

\* C9: the distance returned is the least of the distances of the segments
\* examined, which are all segments of all ways, and the snap point is the
\* closest point of the first segment examined that is at this distance.
C9_SegmentCount(els) ==
    LET ids == {els[k].id : k \in {j \in DOMAIN els : els[j].type = "node"}}
        Resolvable(w) == Cardinality({k \in DOMAIN w.nodes : w.nodes[k] \in ids})
        RECURSIVE Count(_)
        Count(k) ==
            IF k > Len(els) THEN 0
            ELSE Count(k + 1) +
                 (IF els[k].type = "way" /\ Resolvable(els[k]) >= 2
                  THEN Resolvable(els[k]) - 1 ELSE 0)
    IN  Count(1)
C9_MinimumAndFirstSnap ==
    (fetched # Pending /\ fetched.kind = "return") =>
        /\ Len(examined) = C9_SegmentCount(elements)
        /\ \E k \in DOMAIN examined :
               /\ fetched.dist_sq = examined[k].dist_sq
               /\ fetched.snap = <<examined[k].lat, examined[k].lng>>
               /\ \A j \in DOMAIN examined :
                      examined[k].dist_sq.n * examined[j].dist_sq.d
                          <= examined[j].dist_sq.n * examined[k].dist_sq.d
               /\ \A j \in 1..(k - 1) : examined[j].dist_sq # examined[k].dist_sq
\* C9: a return where two segments are at the least distance and their closest
\* points differ
C9_Witness ==
    /\ fetched # Pending /\ fetched.kind = "return"
    /\ \E j, k \in DOMAIN examined :
           /\ j < k
           /\ examined[j].dist_sq = fetched.dist_sq
           /\ examined[k].dist_sq = fetched.dist_sq
           /\ <<examined[k].lat, examined[k].lng>> # fetched.snap

\* C10: fetch_road_distance raises exactly when the network has no way with at
\* least two resolvable nodes; it never returns an infinite distance nor the
\* query point left from a search that examined nothing.
C10_NoSegment(els) ==
    \A k \in DOMAIN els :
        els[k].type = "way" =>
            Cardinality({i \in DOMAIN els[k].nodes :
                            \E j \in DOMAIN els :
                                els[j].type = "node" /\ els[j].id = els[k].nodes[i]}) < 2
C10_RaisesExactlyWithoutSegment ==
    fetched # Pending =>
        /\ fetched = Raised <=> C10_NoSegment(elements)
        /\ fetched # Raised =>
               /\ fetched.dist_sq.d > 0
               /\ examined # <<>>
               /\ \E k \in DOMAIN examined :
                      fetched.snap = <<examined[k].lat, examined[k].lng>>
\* C10: a raise on a network that has nodes and a way of two node ids, only
\* one of which is resolvable
C10_Witness ==
    /\ fetched = Raised
    /\ \E k \in DOMAIN elements : elements[k].type = "node"
    /\ \E k \in DOMAIN elements :
           elements[k].type = "way" /\ Len(elements[k].nodes) >= 2

\* the source date the k-th query returned, when it is a number not seen in
\* an earlier answer and not older than five years; a null or zero date, a
\* text and a failed query give none
C11_Source(k) ==
    IF queries[k].resp.kind = "json" /\ queries[k].resp.features # <<>>
    THEN queries[k].resp.features[1] ELSE None
C11_NewRecent(k) ==
    /\ C11_Source(k).kind = "number" /\ C11_Source(k).v # 0
    /\ \A j \in 1..(k - 1) : C11_Source(j) # C11_Source(k)
    /\ C11_Source(k).v >= Now - 5 * 36525 * 864
C11_Summer(k) == C11_NewRecent(k) /\ gmtime(C11_Source(k).v).tm_mon \in {6, 7, 8}
\* C11: once the query for a visited entry returns a source date that was not
\* seen before, is not older than 5 years and is of June, July or August (UTC),
\* fetch_wayback_summer_by_capture has returned that entry and no later query
\* is issued; when this is the most recent entry, one query is issued in all.
C11_SummerReturnsAtOnce ==
    \A k \in DOMAIN queries :
        C11_Summer(k) =>
            /\ k = Len(queries)
            /\ wpc = "done"
            /\ wb = [kind |-> "entry", num |-> queries[k].v.num, date |-> queries[k].v.date,
                     url |-> queries[k].v.url]
\* C11: a call with a budget of two entries or more that returned the most
\* recent entry after one query, which gave a summer date
C11_Witness ==
    /\ wpc = "done" /\ Len(versions) >= 2 /\ max_tries >= 2
    /\ Len(queries) = 1 /\ C11_Summer(1)
    /\ wb.kind = "entry" /\ wb.num = versions[1].num

\* C12: fetch_wayback_summer_by_capture issues at most max_tries point queries,
\* none when max_tries <= 0, at most one for an entry, and in strictly
\* descending order of the release dates.
C12_WithinBudgetDescending ==
    /\ Len(queries) <= Max(max_tries, 0)
    /\ \A j, k \in DOMAIN queries : j < k => StrLess(queries[k].v.date, queries[j].v.date)

\* the candidates of a finished search: the queries that returned a new, recent
\* date; and the day-of-year distance of one to July 1st
C13_Candidates == {k \in DOMAIN queries : C11_NewRecent(k)}
C13_Distance(k) == Abs(gmtime(C11_Source(k).v).tm_yday - 182)
C13_NoHit == wpc = "done" /\ wb # Raised /\ \A k \in DOMAIN queries : ~C11_Summer(k)
\* C13: when no visited entry gave a summer date and some gave a new date not
\* older than 5 years, the entry returned is, among exactly those, the one at
\* the least |day of year - 182|, the earliest visited on ties, and the last
\* message on the progress channel reports it; old and duplicate dates do not
\* stop the search, which visits every entry of its budget.
C13_ClosestToJulyFirst ==
    (C13_NoHit /\ C13_Candidates # {}) =>
        /\ \E k \in C13_Candidates :
               /\ \A j \in C13_Candidates : C13_Distance(k) <= C13_Distance(j)
               /\ \A j \in C13_Candidates : j < k => C13_Distance(k) < C13_Distance(j)
               /\ wb = [kind |-> "entry", num |-> queries[k].v.num,
                        date |-> queries[k].v.date, url |-> queries[k].v.url]
        /\ callback => progress[Len(progress)].msg = "Using closest to summer"
        /\ Len(queries) = Len(Slice(versions, tries))
\* C13: a search that met an old date first, then two dates as far from July
\* 1st, and returned the earlier visited of these
C13_Witness ==
    /\ C13_NoHit /\ callback /\ Len(queries) = 3
    /\ C11_Source(1).kind = "number" /\ ~C11_NewRecent(1)
    /\ C13_Candidates = {2, 3} /\ C13_Distance(2) = C13_Distance(3)
    /\ wb.kind = "entry" /\ wb.num = queries[2].v.num

\* the items of the catalog with a date in the title and a metadata URL
C14_Complete(item) ==
    /\ item.title.kind = "str" /\ ReSearch(WaybackRe, item.title.s).ok
    /\ item.url.kind = "str" /\ item.url.s # ""
C14_Date(item) == Group(ReSearch(WaybackRe, item.title.s), item.title.s, 1)
C14_CompleteItems == {k \in DOMAIN config : C14_Complete(config[k])}
\* C14: a call that ends with neither a summer hit nor a finalist returns the
\* entry of the most recent release date among the catalog's entries with a
\* parseable date and a metadata URL, and absent when there is none.
C14_FallsBackToMostRecent ==
    (wpc = "done" /\ (\A k \in DOMAIN queries : ~C11_NewRecent(k))) =>
        IF C14_CompleteItems = {} THEN wb = None
        ELSE \E k \in C14_CompleteItems :
                 /\ \A j \in C14_CompleteItems \ {k} :
                        StrLess(C14_Date(config[j]), C14_Date(config[k]))
                 /\ wb = [kind |-> "entry", num |-> config[k].num,
                          date |-> C14_Date(config[k]), url |-> config[k].url]

\* the answers of the queries, the k-th taken to be a response without feature
C15_Answers(k) ==
    [j \in DOMAIN queries |-> IF j = k THEN Response(<<>>) ELSE queries[j].resp]
\* the search over the entries vs from the k-th on, answered by rs
RECURSIVE C15_Search(_, _, _, _)
C15_Search(vs, rs, k, st) ==
    IF k > Len(vs) \/ st.hit # None THEN st
    ELSE IF k > Len(rs) THEN [st EXCEPT !.hit = Pending]
    ELSE C15_Search(vs, rs, k + 1, Visit(vs[k], rs[k], st))
C15_Outcome(st) == IF st.hit # None THEN st.hit ELSE Conclusion(st.best, versions)
C15_Result(rs) ==
    C15_Outcome(C15_Search(Slice(versions, tries), rs, 1,
                           [seen |-> {}, best |-> None, hit |-> None]))
C15_Failed(k) ==
    queries[k].resp = QueryError \/ queries[k].resp = Response(<<NotANumber>>)
\* C15: a point query that fails (the request raises, or the response carries
\* a date that is no number) does not end fetch_wayback_summer_by_capture: the
\* next entry of the budget is queried, and the call returns what it returns
\* when that query gives no feature.
C15_FailedQuerySkipped ==
    \A k \in DOMAIN queries :
        C15_Failed(k) =>
            /\ wb # Raised
            /\ wpc = "done" =>
                   /\ k < Len(Slice(versions, tries)) => Len(queries) > k
                   /\ wb = C15_Result(C15_Answers(k))
\* C15: a call whose first query failed and whose second gave a summer date,
\* which it returned
C15_Witness ==
    /\ wpc = "done" /\ Len(queries) = 2
    /\ queries[1].resp = QueryError /\ C11_Summer(2)
    /\ wb.kind = "entry" /\ wb.num = queries[2].v.num

\* C16: an item whose itemTitle or metadataLayerUrl is missing or null, or
\* whose title has no date, makes neither fetch_wayback_summer_by_capture nor
\* _find_summer_by_release_date fail, and is not among the entries searched.
C16_IncompleteItemsExcluded ==
    /\ wb # Raised /\ summer # Raised
    /\ \A k \in DOMAIN versions :
           \E j \in C14_CompleteItems : versions[k].num = config[j].num

\* the items of the catalog with a metadata URL and whose title has a date of
\* June, July or August
C17_Month(item) == IntVal(SubSeq(C14_Date(item), 6, 7))
C17_SummerItems ==
    {k \in C14_CompleteItems : C17_Month(config[k]) \in {6, 7, 8}}
\* C17: _find_summer_by_release_date returns the entry of the most recent
\* release date among the entries with a parseable date, a metadata URL and a
\* release month of June, July or August, and absent exactly when there is
\* none; it never returns an entry without metadata URL.
C17_MostRecentSummerRelease ==
    summer \notin {Pending, Unused} =>
        IF C17_SummerItems = {} THEN summer = None
        ELSE \E k \in C17_SummerItems :
                 /\ \A j \in C17_SummerItems \ {k} :
                        StrLess(C14_Date(config[j]), C14_Date(config[k]))
                 /\ summer = [kind |-> "entry", num |-> config[k].num,
                              date |-> C14_Date(config[k]), url |-> config[k].url]

\* C18: classify_landcover returns, and does not raise, on degenerate input:
\* all five values 0 when the mask leaves no pixel, and bare = 100 with the
\* four others 0 when the region has pixels and none is of any class.
C18_Unclassified ==
    \A k \in Region(image, mask) :
        ~(water(image[k]) \/ dense_veg(image[k]) \/ sparse_veg(image[k])
            \/ bare(image[k]) \/ built(image[k]))
C19_Rounded(key) == Round(counts[key] * 100, Cardinality(Region(image, mask)))
C19_PercentOfRegion ==
    (result \notin {Pending, Unused} /\ Region(image, mask) # {}) =>
        \E changed \in KeySet :
            \A key \in KeySet \ {changed} : result[key] = C19_Rounded(key)

\* C20: with a mask, two images that are the same at every pixel where the
\* mask is true give the same result, whatever their other pixels are.
C20_MaskedOutIgnored ==
    (result \notin {Pending, Unused} /\ result_other \notin {Pending, Unused}) =>
        result = result_other
\* C20: two images, different where the mask is false, that give the same
\* result under the mask and different results without it
C20_Witness ==
    /\ result \notin {Pending, Unused} /\ result_other \notin {Pending, Unused}
    /\ image # other /\ Region(image, mask) # {}
    /\ result = result_other
    /\ classify_landcover(image, None).result # classify_landcover(other, None).result

\* C22: _closest_point_on_segment returns a point of the segment a-b whose
\* distance to p is the least over the segment and is not negative; when p is
\* on the segment the distance is 0 and the point is p, and when a equals b
\* the point is a.
\* the segments fetch_road_distance gives to the function, in its order
RECURSIVE C22_Pairs(_, _)
C22_Pairs(wn, i) ==
    IF i >= Len(wn) THEN <<>> ELSE <<[a |-> wn[i], b |-> wn[i + 1]]>> \o C22_Pairs(wn, i + 1)
RECURSIVE C22_Segments(_, _)
C22_Segments(els, k) ==
    IF k > Len(els) THEN <<>>
    ELSE (IF els[k].type = "way" THEN C22_Pairs(way_nodes(els[k].nodes, nodes(els)), 1)
          ELSE <<>>) \o C22_Segments(els, k + 1)
\* the point a + (i/n)(b - a) in local metres about p, times n
C22_Along(p, g, i, n) ==
    [x |-> (n * (g.a[2] - p[2]) + i * (g.b[2] - g.a[2])) * m_per_deg_lng(p[1]),
     y |-> (n * (g.a[1] - p[1]) + i * (g.b[1] - g.a[1])) * m_per_deg_lat]
\* c is a + t (b - a) for a t in [0, 1]
C22_OnSegment(c, g) ==
    LET dlat == g.b[1] - g.a[1]
        dlng == g.b[2] - g.a[2]
        \* c - a, times c.lat.d and c.lng.d
        ulat == c.lat.n - g.a[1] * c.lat.d
        ulng == c.lng.n - g.a[2] * c.lng.d
        \* the dot product of c - a and b - a, times c.lat.d * c.lng.d
        dot == ulat * c.lng.d * dlat + ulng * c.lat.d * dlng
    IN  /\ g.a = g.b => ulat = 0 /\ ulng = 0
        /\ ulat * c.lng.d * dlng = ulng * c.lat.d * dlat
        /\ 0 <= dot
        /\ dot <= (dlat * dlat + dlng * dlng) * c.lat.d * c.lng.d
C22_Samples == 4
C22_Least(c, p, g) ==
    \A n \in 1..C22_Samples : \A i \in 0..n :
        c.dist_sq.n * n * n
            <= (C22_Along(p, g, i, n).x * C22_Along(p, g, i, n).x
                + C22_Along(p, g, i, n).y * C22_Along(p, g, i, n).y) * c.dist_sq.d
C22_PointOnSegment(p, g) ==
    C22_OnSegment([lat |-> Frac(p[1], 1), lng |-> Frac(p[2], 1)], g)
C22_ClosestPointOfSegment ==
    /\ Len(examined) <= Len(C22_Segments(elements, 1))
    /\ \A k \in DOMAIN examined :
          LET c == examined[k]
              g == C22_Segments(elements, 1)[k]
          IN  /\ c.dist_sq.d > 0 /\ c.dist_sq.n >= 0
              /\ c.lat.d > 0 /\ c.lng.d > 0
              /\ C22_OnSegment(c, g)
              /\ C22_Least(c, point, g)
              /\ C22_PointOnSegment(point, g) =>
                     /\ c.dist_sq.n = 0
                     /\ c.lat = Frac(point[1], 1) /\ c.lng = Frac(point[2], 1)
              /\ g.a = g.b => c.lat = Frac(g.a[1], 1) /\ c.lng = Frac(g.a[2], 1)
\* C22: two segments examined in one search: one whose closest point is an
\* end, the projection falling outside, and one that holds p
C22_Witness ==
    /\ \E k \in DOMAIN examined :
           /\ C22_Segments(elements, 1)[k].a # C22_Segments(elements, 1)[k].b
           /\ examined[k].dist_sq.n > 0
           /\ \/ <<examined[k].lat.n, examined[k].lng.n>> = C22_Segments(elements, 1)[k].a
              \/ <<examined[k].lat.n, examined[k].lng.n>> = C22_Segments(elements, 1)[k].b
           /\ examined[k].lat.d = 1 /\ examined[k].lng.d = 1
           /\ _closest_point_on_line(point[1], point[2],
                  C22_Segments(elements, 1)[k].a[1], C22_Segments(elements, 1)[k].a[2],
                  C22_Segments(elements, 1)[k].b[1], C22_Segments(elements, 1)[k].b[2])
                  # examined[k]
    /\ \E k \in DOMAIN examined :
           /\ C22_Segments(elements, 1)[k].a # C22_Segments(elements, 1)[k].b
           /\ C22_PointOnSegment(point, C22_Segments(elements, 1)[k])
           /\ examined[k].dist_sq.n = 0

\* C25: fetch_road_distance measures only segments between two nodes that are
\* adjacent in the node-id list of a way: the distance returned is not below
\* the distance to the nearest segment of two adjacent nodes, both in the
\* node table.
C25_AdjacentSegments(els) ==
    {[a |-> nodes(els)[els[k].nodes[i]], b |-> nodes(els)[els[k].nodes[i + 1]]] :
        <<k, i>> \in {<<k, i>> \in (DOMAIN els) \X (1..3) :
                        /\ els[k].type = "way"
                        /\ i + 1 <= Len(els[k].nodes)
                        /\ els[k].nodes[i] \in DOMAIN nodes(els)
                        /\ els[k].nodes[i + 1] \in DOMAIN nodes(els)}}
C25_OnlyAdjacentNodes ==
    (fetched # Pending /\ fetched.kind = "return") =>
        \E g \in C25_AdjacentSegments(elements) :
            ~Less(fetched.dist_sq,
                  _closest_point_on_segment(point[1], point[2], g.a[1], g.a[2],
                                            g.b[1], g.b[2]).dist_sq)

\* C23: parse_coordinates accepts a pair whose components are in the Korean
\* form, each with a Korean direction word before it: the word is taken as
\* N, S, E or W, so that the result is the latitude and longitude the text
\* denotes, negative for nam and seo, whatever the order of the components.
C23_KoreanDirectionWords ==
    parsed \notin {Pending, Unused} =>
        \A k \in DOMAIN KoreanPairs :
            input = KoreanPairs[k].text =>
                parsed = Pair(KoreanPairs[k].lat, KoreanPairs[k].lng)

\* C24: the candidates of scan_coordinates_in_text are in the order of the
\* patterns and, within a pattern, of their places in the text, and the list
\* returned keeps this order; of two candidates that are near-duplicates the
\* one that survives is the earlier in this order: the later is not returned.
C24_Before(a, b) == a.pat < b.pat \/ (a.pat = b.pat /\ a.from < b.from)
C24_InOrder(items) == \A i, j \in DOMAIN items : i < j => C24_Before(items[i], items[j])
C24_Ordered(t) ==
    /\ C24_InOrder(results[t].items)
    /\ C24_InOrder(returned[t].items)
    /\ \A j \in DOMAIN returned[t].items :
           \E k \in DOMAIN results[t].items : results[t].items[k] = returned[t].items[j]
C24_Kept(t, c) == \E j \in DOMAIN returned[t].items : returned[t].items[j] = c
C24_EarlierSurvives ==
    \A t \in Threads :
        (returned[t] # Pending /\ returned[t].kind = "list") =>
            /\ C24_Ordered(t)
            /\ \A i, j \in DOMAIN results[t].items :
                   (i < j /\ C6_Near(results[t].items[i], results[t].items[j])) =>
                       ~C24_Kept(t, results[t].items[j])
\* C24, amended: the same order of the candidates and of the list returned;
\* of two candidates that are near-duplicates the later is not returned when
\* the earlier is returned (the earlier may itself have been dropped for a
\* candidate before it, and then the later can be returned).
C24_EarlierKeptLaterDropped ==
    \A t \in Threads :
        (returned[t] # Pending /\ returned[t].kind = "list") =>
            /\ C24_Ordered(t)
            /\ \A i, j \in DOMAIN results[t].items :
                   (i < j /\ C6_Near(results[t].items[i], results[t].items[j])
                      /\ C24_Kept(t, results[t].items[i])) =>
                       ~C24_Kept(t, results[t].items[j])
\* C24: a candidate of a later pattern that stands earlier in the text is
\* dropped for its near-duplicate of an earlier pattern, which is returned
C24_Witness ==
    \E t \in Threads :
        /\ returned[t] # Pending /\ returned[t].kind = "list"
        /\ \E i, j \in DOMAIN results[t].items :
               /\ i < j
               /\ results[t].items[i].pat < results[t].items[j].pat
               /\ results[t].items[i].from > results[t].items[j].from
               /\ C6_Near(results[t].items[i], results[t].items[j])
               /\ C24_Kept(t, results[t].items[i])
               /\ ~C24_Kept(t, results[t].items[j])

\* C26: when the search of fetch_wayback_summer_by_capture by capture date
\* finds nothing, neither a summer date nor a closest candidate, the function
\* returns what _find_summer_by_release_date returns for the same catalog.
C26_FallsBackToReleaseDate ==
    (wpc = "done" /\ best = None /\ (\A k \in DOMAIN queries : ~C11_Summer(k))) =>
        wb = _find_summer_by_release_date(config)

\* C21: for every width and height and every requested radius, the circle of
\* the clamped radius about the centre of the image is inside the raster:
\* every integer point (x, y) with (x-cx)^2 + (y-cy)^2 <= radius_px^2 has
\* 0 <= x < w and 0 <= y < h, so that the mask is the whole circle.
C21_Disc ==
    {xy \in ((center[1] - radius_px)..(center[1] + radius_px))
              \X ((center[2] - radius_px)..(center[2] + radius_px)) :
        (xy[1] - center[1]) * (xy[1] - center[1])
            + (xy[2] - center[2]) * (xy[2] - center[2]) <= radius_px * radius_px}
C21_CircleInsideRaster ==
    circle # Pending =>
        /\ \A xy \in C21_Disc :
               /\ 0 <= xy[1] /\ xy[1] < shape[2]
               /\ 0 <= xy[2] /\ xy[2] < shape[1]
        /\ circle.at = C21_Disc

\* C28: run emits file_completed once for each PDF it processes, in the order
\* of the input, and then all_completed once, with a batch of exactly these
\* results in this order; after cancel() it starts no further PDF and still
\* emits all_completed; a PDF whose processing raises gives an error result
\* for that file and the batch goes on.
C28_Completed == SelectSeq(emitted, LAMBDA e : e.sig = "file_completed")
\* the files run began to process: those it announced on progress
C28_Started == SelectSeq(emitted, LAMBDA e : e.sig = "progress")
C28_Signals ==
    /\ \A k \in DOMAIN C28_Completed :
           /\ C28_Completed[k].result.file = k
           /\ C28_Completed[k].result.path = pdf_paths[k]
           /\ C28_Completed[k].result.error = (pdf_paths[k] # "sites")
    /\ Len(C28_Completed) = Len(C28_Started) \/ Len(C28_Completed) + 1 = Len(C28_Started)
    /\ \A k \in DOMAIN C28_Started : C28_Started[k].i = k
    /\ \A k \in DOMAIN emitted :
           emitted[k].sig = "all_completed" =>
               /\ k = Len(emitted) /\ run_pc = "done"
               /\ emitted[k].batch = [j \in DOMAIN C28_Completed |-> C28_Completed[j].result]
    /\ run_pc = "done" =>
           /\ emitted # <<>> /\ emitted[Len(emitted)].sig = "all_completed"
           /\ Len(C28_Started) = Len(C28_Completed)
           /\ ~_cancelled => Len(C28_Completed) = Len(pdf_paths)
C28_NoStartAfterCancel == _cancelled => C28_Started' = C28_Started
C29_Recorded(k) == {migrated[j].name : j \in {i \in 1..k : migrated[i].ok}}
C29_AppliedOnceInOrder ==
    /\ \A j, k \in DOMAIN migrated :
           (j < k /\ migrated[j].run = migrated[k].run) =>
               /\ NameLess(migrated[j].name, migrated[k].name)
               /\ migrated[j].ok
    /\ \A k \in DOMAIN migrated :
           /\ migrated[k].name \notin C29_Recorded(k - 1)
           /\ IsMigration(migrated[k].name)
    /\ _migrations = [k \in 1..Len(SelectSeq(migrated, LAMBDA e : e.ok)) |->
                         SelectSeq(migrated, LAMBDA e : e.ok)[k].name]
    /\ \A j, k \in DOMAIN _migrations : j # k => _migrations[j] # _migrations[k]
    /\ (runs = 2 /\ \A k \in DOMAIN migrated : migrated[k].run = 1 => migrated[k].ok) =>
           \A k \in DOMAIN migrated : migrated[k].run = 1
\* C29: a first run that applied one migration and ended when the next one
\* raised, and a second run that applied this one and the last one, the file
\* names being in another order in the directory
C29_Witness ==
    /\ mig_pc = "rest" /\ runs = 2 /\ Len(migrated) = 4
    /\ migrated[1].run = 1 /\ migrated[1].ok
    /\ migrated[2].run = 1 /\ ~migrated[2].ok
    /\ migrated[3].run = 2 /\ migrated[3].name = migrated[2].name /\ migrated[3].ok
    /\ migrated[4].run = 2 /\ migrated[4].ok
    /\ get_migration_files(listdir) # listdir
    /\ Len(_migrations) = 3

\* C30: calculate_risk_score is road_proximity + vegetation_cover whatever
\* the other criteria are, and lies in 2..10 for criteria in 1..5;
\* get_risk_level gives each score of 2..10 the one level of RISK_LEVELS whose
\* range holds it (LOW 2-4, MODERATE 5-6, HIGH 7-8, CRITICAL 9-10), never a
\* lower level for a higher score, and never through the fallback; and every
\* evaluation _auto_save has written holds the score and the level of its own
\* road_proximity and vegetation_cover.
C30_Expected(s) ==
    IF s <= 4 THEN "LOW" ELSE IF s <= 6 THEN "MODERATE" ELSE IF s <= 8 THEN "HIGH"
    ELSE "CRITICAL"
C30_Severity(level) ==
    CHOOSE k \in DOMAIN RISK_LEVELS : RISK_LEVELS[k].level = level
C30_InRange(s) ==
    {k \in DOMAIN RISK_LEVELS : RISK_LEVELS[k].low <= s /\ s <= RISK_LEVELS[k].high}
C30_Functions ==
    /\ \A rp \in 1..5, veg \in 1..5, acc \in 1..5, dev \in 1..5 :
           /\ calculate_risk_score(rp, veg, [road_proximity |-> rp, accessibility |-> acc,
                                             vegetation_cover |-> veg,
                                             development_signs |-> dev]) = rp + veg
           /\ rp + veg \in 2..10
    /\ \A s \in 2..10 :
           /\ Cardinality(C30_InRange(s)) = 1
           /\ get_risk_level(s) = C30_Expected(s)
    /\ \A s \in 2..10, t \in 2..10 :
           s <= t => C30_Severity(get_risk_level(s)) <= C30_Severity(get_risk_level(t))
C30_RiskConsistent ==
    /\ C30_Functions
    /\ \A id \in DOMAIN evaluations :
           evaluations[id] # None =>
               /\ evaluations[id].overall_risk =
                      evaluations[id].road_proximity + evaluations[id].vegetation_cover
               /\ C30_InRange(evaluations[id].overall_risk) # {}
               /\ evaluations[id].risk_level = C30_Expected(evaluations[id].overall_risk)
\* C30 (witness): an evaluation is stored with the score 10, CRITICAL, while
\* another criterion than the two that count is above 1
C30_Witness ==
    \E id \in DOMAIN evaluations :
        /\ evaluations[id] # None
        /\ evaluations[id].overall_risk = 10
        /\ evaluations[id].risk_level = "CRITICAL"
        /\ evaluations[id].development_signs > 1

\* C27: the measurement of a worker started for a site is stored only in the
\* evaluation of that site, whatever the user selects, deselects or deletes
\* before the signal is handled: the snap point an evaluation holds is the
\* one measured from its own site, and no handler ends with an exception for
\* an absent current site.
C27_OwnMeasurement(id) ==
    evaluations[id] # None /\ evaluations[id].road_distance # None =>
        /\ evaluations[id].road_snap_lat = Site(id).latitude
        /\ evaluations[id].road_snap_lng = Site(id).longitude
C27_OnlyOwnSite ==
    /\ \A id \in DOMAIN evaluations : C27_OwnMeasurement(id)
    /\ raised = None

=============================================================================
